---- MODULE Spec2Model ----
(***************************************************************************)
(* Model of voxygen/src/session.rs: the per-frame targeting resolver       *)
(* (under_cursor), the edge-tracked input state (key_state) and the event  *)
(* dispatch of <SessionState as PlayState>::tick.                          *)
(*                                                                         *)
(* Lengths are fixed-point: one world unit is UNIT model units, so that    *)
(* every f32 the model needs (positions, radii = scale * body * 3.0, the   *)
(* 0.01 ray epsilon under floor) is computed exactly with integers.        *)
(***************************************************************************)
EXTENDS Integers, Sequences, FiniteSets, TLC

\* ------------------------------------------------------------- constants
UNIT == 3
MAX_TARGET_RANGE == 300
RAY_LIMIT == 100
RADIUS_SCALE == 3
PLAYER_HEAD == 2
EPS_DEN == 100
DIST_SCALE == 1000
I32_MAX == 2147483647
\* common::comp constants imported at session.rs:19-20; their values are set
\* outside this file.  MAX_MOUNT_RANGE_SQR takes the value of the spec's
\* mount scenario, MAX_PICKUP_RANGE_SQR one that satisfies "pickup range >= 5".
MAX_MOUNT_RANGE_SQR == 500
MAX_PICKUP_RANGE_SQR == 64

\* ---------------------------------------------------------------- bounds
NumOthers == 2
MaxLevels == 5
MaxEvents == 3
MaxEventsAll == 2
MaxCalls == 2
MaxHitDist == 4

\* ------------------------------------------------------------ data model
Player == 0
Others == 1..NumOthers
Entities == {Player} \cup Others
NoEntity == -1
NoPos == <<>>

NoEvent == [input |-> "None", state |-> FALSE, consumed |-> FALSE]

NoIntents == <<>>

Intent(op, pos, ent, block) == [op |-> op, pos |-> pos, ent |-> ent, block |-> block]

ClientOp(op) == Intent(op, NoPos, NoEntity, "None")

HasOp(intents, op) == \E i \in 1..Len(intents) : intents[i].op = op

RECURSIVE CountOps(_, _)
CountOps(intents, ops) ==
    IF intents = <<>> THEN 0
    ELSE (IF Head(intents).op \in ops THEN 1 ELSE 0) + CountOps(Tail(intents), ops)

Min2(a, b) == IF a < b THEN a ELSE b

\* ---------------------------------------------------------------- vectors
VAdd(a, b) == <<a[1] + b[1], a[2] + b[2], a[3] + b[3]>>

VScale(a, k) == <<a[1] * k, a[2] * k, a[3] * k>>

Sq(x) == x * x

DistSq(a, b) == Sq(a[1] - b[1]) + Sq(a[2] - b[2]) + Sq(a[3] - b[3])

\* pos / world-unit vector -> model units
W3(x, y, z) == <<x * UNIT, y * UNIT, z * UNIT>>

\* Index of the axis an axis-aligned unit direction points along.
Axis(dir) == CHOOSE k \in 1..3 : dir[k] /= 0

\* Mutant of FloorPoint: the hit point itself, floored.
FloorPointExact(c, dir, dist, e) ==
    LET f(k) == (c[k] + dir[k] * dist) \div UNIT
    IN  <<f(1), f(2), f(3)>>

\* (cam_pos + cam_dir * (dist + e * 0.01)).map(|e| e.floor() as i32), e in {-1, 1}
FloorPoint(c, dir, dist, e) ==
    LET f(k) == (EPS_DEN * (c[k] + dir[k] * dist) + dir[k] * e * UNIT) \div (EPS_DEN * UNIT)
    IN  <<f(1), f(2), f(3)>>

\* sqrt(A) - ra < sqrt(B) - rb over the reals, for integers A, B >= 0.
SurfaceLess(A, ra, B, rb) ==
    LET c == ra - rb
        K == A - B - c * c
        K2 == B - A - c * c
    IN  IF c >= 0
        THEN K < 0 \/ K * K < 4 * c * c * B
        ELSE K2 > 0 /\ 4 * c * c * A < K2 * K2

\* ------------------------------------------------------------------ world
\* terrain.get(p): the world holds at most one non-air voxel.
TerrainGet(w, p) == IF p = w.vox THEN w.vox_kind ELSE "Air"

\* terrain.ray(cam_pos, cam_pos + cam_dir * 100.0)
\*     .until(|b| b.is_filled() || b.is_collectible()).cast()
\* for an axis-aligned cam_dir: (distance, hit).
TerrainRay(w) ==
    LET a == Axis(w.cam_dir)
        s == w.cam_dir[a]
        c == w.cam_pos
        aligned == /\ w.vox /= NoPos
                   /\ w.vox_kind \in {"Filled", "Collectible"}
                   /\ \A k \in 1..3 : k /= a => (c[k] \div UNIT) = w.vox[k]
        lo == w.vox[a] * UNIT
        hi == (w.vox[a] + 1) * UNIT
        d == IF s > 0
             THEN (IF c[a] < lo THEN lo - c[a] ELSE IF c[a] < hi THEN 0 ELSE -1)
             ELSE (IF c[a] >= hi THEN c[a] - hi ELSE IF c[a] >= lo THEN 0 ELSE -1)
    IN  IF aligned /\ d >= 0 /\ d <= RAY_LIMIT * UNIT
        THEN [dist |-> d, hit |-> TRUE]
        ELSE [dist |-> RAY_LIMIT * UNIT, hit |-> FALSE]

\* s.map_or(1.0, |s| s.0) * b.radius() * RADIUS_SCALE, in model units
Radius(ent) == (IF ent.scale = 0 THEN 1 ELSE ent.scale) * ent.body * RADIUS_SCALE

\* Vec3::new(p.0.x, p.0.y, p.0.z + radius)
AimPoint(ent) == VAdd(ent.pos, <<0, 0, Radius(ent)>>)

\* Mutant of the segment: the projection on the whole ray ahead, not cut at len.
ProjectedPointOnRay(start, dir, len, p) ==
    LET a == Axis(dir)
        t == dir[a] * (p[a] - start[a])
    IN  VAdd(start, VScale(dir, IF t < 0 THEN 0 ELSE t))

\* seg_ray.projected_point(p) for the axis-aligned segment start .. start + dir * len
ProjectedPoint(start, dir, len, p) ==
    LET a == Axis(dir)
        t == dir[a] * (p[a] - start[a])
        tc == IF t < 0 THEN 0 ELSE IF t > len THEN len ELSE t
    IN  VAdd(start, VScale(dir, tc))

\* Mutant of the sort: the join order is kept.
InsertSortedLast(sorted, x) == sorted \o <<x>>

\* insertion of x into a sequence sorted by surface distance (slices this short
\* are sorted by insertion: equal keys keep their join order)
RECURSIVE InsertSorted(_, _)
InsertSorted(sorted, x) ==
    IF sorted = <<>> THEN <<x>>
    ELSE IF SurfaceLess(x.dsq, x.r, Head(sorted).dsq, Head(sorted).r)
         THEN <<x>> \o sorted
         ELSE <<Head(sorted)>> \o InsertSorted(Tail(sorted), x)

RECURSIVE SortBySurface(_)
SortBySurface(cands) ==
    IF cands = <<>> THEN <<>>
    ELSE InsertSorted(SortBySurface(SubSeq(cands, 1, Len(cands) - 1)), cands[Len(cands)])

\* A join visits entities in ascending id order: the ids of S as a sequence.
RECURSIVE JoinSeq(_)
JoinSeq(S) ==
    IF S = {} THEN <<>>
    ELSE LET m == CHOOSE x \in S : \A y \in S : x <= y
         IN  <<m>> \o JoinSeq(S \ {m})

\* player_pos of under_cursor: the player's position raised by PLAYER_HEAD, or
\* the camera's position for a player without one.
PlayerPoint(w) ==
    IF w.ents[Player].pos /= NoPos THEN VAdd(w.ents[Player].pos, W3(0, 0, PLAYER_HEAD))
    ELSE w.cam_pos

\* The filter of the join with every entity in range of the cast, the camera not inside.
InReachAnywhere(dsq, r, cast_dist) ==
    dsq <= Sq(cast_dist) + 2 * cast_dist * r + Sq(r)

\* .filter(|(_, _, r, d_sqr)| d_sqr <= cast_dist.powi(2) + 2.0 * cast_dist * r + r.powi(2))
\* .filter(|(_, _, r, d_sqr)| d_sqr > r.powi(2))   ("ignore entities intersecting the camera")
InReach(dsq, r, cast_dist) ==
    /\ dsq <= Sq(cast_dist) + 2 * cast_dist * r + Sq(r)
    /\ dsq > Sq(r)

\* Mutant of the join: the player's own entity is a candidate as well.
JoinedWithPlayer(w, e) == w.ents[e].pos /= NoPos /\ w.ents[e].body >= 0

\* (&entities, &Pos, Scale.maybe(), &Body).join().filter(|(e, ..)| *e != player_entity)
Joined(w, e) ==
    /\ e /= Player
    /\ w.ents[e].pos /= NoPos
    /\ w.ents[e].body >= 0

\* Mutant of the final test: every found candidate is accepted.
AcceptAnyTarget(p, r, player_pos) == TRUE

\* dist_to_player - r < MAX_TARGET_RANGE, for dist_to_player = p.distance(player_pos)
AcceptTarget(p, r, player_pos) == DistSq(p, player_pos) < Sq(MAX_TARGET_RANGE * UNIT + r)

\* Mutant of the return: the terrain positions are dropped when an entity is targeted.
OutcomeEntityFirst(bp, sp, te, dsq) ==
    [build_pos |-> IF te /= NoEntity THEN NoPos ELSE bp,
     select_pos |-> IF te /= NoEntity THEN NoPos ELSE sp,
     target_entity |-> te, target_dsq |-> dsq]

\* (build_pos, select_pos, target_entity), the target with its squared distance
Outcome(bp, sp, te, dsq) ==
    [build_pos |-> bp, select_pos |-> sp, target_entity |-> te, target_dsq |-> dsq]

\* Mutant of the resolver: the first entity of the join is the target, wherever it is.
UnderCursorAnyEntity(w, pickup_range_sqr) ==
    LET ids == JoinSeq({e \in Entities : Joined(w, e)})
    IN  IF ids = <<>> THEN Outcome(NoPos, NoPos, NoEntity, -1)
        ELSE Outcome(NoPos, NoPos, ids[1], DistSq(AimPoint(w.ents[ids[1]]), PlayerPoint(w)))

\* Mutant of the resolver: the first intersecting candidate that passes the
\* player-range test is the target, a nearer one that fails it passed over.
UnderCursorFallback(w, pickup_range_sqr) ==
    LET player_pos == PlayerPoint(w)
        cam_ray == TerrainRay(w)
        cam_dist == cam_ray.dist
        hit_point == VAdd(w.cam_pos, VScale(w.cam_dir, cam_dist))
        in_range == /\ cam_ray.hit
                    /\ DistSq(player_pos, hit_point) <= pickup_range_sqr * UNIT * UNIT
        cast_dist == IF cam_ray.hit THEN Min2(cam_dist, MAX_TARGET_RANGE * UNIT)
                     ELSE MAX_TARGET_RANGE * UNIT
        cand(e) == [e |-> e, pos |-> AimPoint(w.ents[e]), r |-> Radius(w.ents[e]),
                    dsq |-> DistSq(AimPoint(w.ents[e]), w.cam_pos)]
        keep(e) == /\ Joined(w, e)
                   /\ InReach(cand(e).dsq, cand(e).r, cast_dist)
        ids == JoinSeq({e \in Entities : keep(e)})
        nearby == SortBySurface([i \in 1..Len(ids) |-> cand(ids[i])])
        hits(c) == /\ DistSq(ProjectedPoint(w.cam_pos, w.cam_dir, cam_dist, c.pos), c.pos) < Sq(c.r)
                   /\ AcceptTarget(c.pos, c.r, player_pos)
        found == {i \in 1..Len(nearby) : hits(nearby[i])}
        first == nearby[CHOOSE i \in found : \A j \in found : i <= j]
        accept == found /= {}
    IN  Outcome(IF in_range THEN FloorPoint(w.cam_pos, w.cam_dir, cam_dist, -1) ELSE NoPos,
                IF in_range THEN FloorPoint(w.cam_pos, w.cam_dir, cam_dist, 1) ELSE NoPos,
                IF accept THEN first.e ELSE NoEntity,
                IF accept THEN DistSq(first.pos, player_pos) ELSE -1)

\* under_cursor(client, cam_pos, cam_dir), for a value of MAX_PICKUP_RANGE_SQR
UnderCursor(w, pickup_range_sqr) ==
    LET player_pos == PlayerPoint(w)
        cam_ray == TerrainRay(w)
        cam_dist == cam_ray.dist
        hit_point == VAdd(w.cam_pos, VScale(w.cam_dir, cam_dist))
        in_range == /\ cam_ray.hit
                    /\ DistSq(player_pos, hit_point) <= pickup_range_sqr * UNIT * UNIT
        cast_dist == IF cam_ray.hit THEN Min2(cam_dist, MAX_TARGET_RANGE * UNIT)
                     ELSE MAX_TARGET_RANGE * UNIT
        cand(e) == [e |-> e, pos |-> AimPoint(w.ents[e]), r |-> Radius(w.ents[e]),
                    dsq |-> DistSq(AimPoint(w.ents[e]), w.cam_pos)]
        keep(e) == /\ Joined(w, e)
                   /\ InReach(cand(e).dsq, cand(e).r, cast_dist)
        ids == JoinSeq({e \in Entities : keep(e)})
        nearby == SortBySurface([i \in 1..Len(ids) |-> cand(ids[i])])
        hits(c) == DistSq(ProjectedPoint(w.cam_pos, w.cam_dir, cam_dist, c.pos), c.pos) < Sq(c.r)
        found == {i \in 1..Len(nearby) : hits(nearby[i])}
        first == nearby[CHOOSE i \in found : \A j \in found : i <= j]
        accept == /\ found /= {}
                  /\ AcceptTarget(first.pos, first.r, player_pos)
    IN  Outcome(IF in_range THEN FloorPoint(w.cam_pos, w.cam_dir, cam_dist, -1) ELSE NoPos,
                IF in_range THEN FloorPoint(w.cam_pos, w.cam_dir, cam_dist, 1) ELSE NoPos,
                IF accept THEN first.e ELSE NoEntity,
                IF accept THEN DistSq(first.pos, player_pos) ELSE -1)

\* under_cursor with the range of the build
under_cursor(w) == UnderCursor(w, MAX_PICKUP_RANGE_SQR)

\* ------------------------------------------------------- world snapshots
Ent(pos, body, scale, mount, item) ==
    [pos |-> pos, body |-> body, scale |-> scale, mount |-> mount, item |-> item]

\* An entity with no Pos, Body, MountState or Item component.
Absent == Ent(NoPos, -1, 0, "None", FALSE)

BaseWorld ==
    [mode |-> "in_game", paused |-> FALSE, can_build |-> FALSE, mounted |-> FALSE,
     lantern |-> FALSE, invite |-> FALSE,
     cam_pos |-> W3(0, 0, 2), cam_dir |-> <<1, 0, 0>>,
     vox |-> NoPos, vox_kind |-> "Air",
     ents |-> [e \in Entities |->
                 IF e = Player THEN Ent(W3(0, 0, 0), 1, 0, "Unmounted", FALSE) ELSE Absent]]

\* Frames that leave the session, and a paused frame.
OffGameWorlds ==
    {[BaseWorld EXCEPT !.mode = m] : m \in {"registered", "neither"}}
        \cup {[BaseWorld EXCEPT !.paused = TRUE]}

\* Terrain under the cursor: nothing, a voxel 5 units ahead (within pickup range)
\* or 40 units ahead (hit, out of pickup range); with and without CanBuild.
BuildWorlds ==
    {[BaseWorld EXCEPT !.can_build = cb, !.vox = v[1], !.vox_kind = v[2]] :
        cb \in BOOLEAN,
        v \in {<<NoPos, "Air">>} \cup
              ({<<5, 0, 2>>, <<40, 0, 2>>} \X {"Filled", "Collectible"})}

\* ------------------------------------------------------------ more worlds
WithEnts(w, others) == [w EXCEPT !.ents = [e \in Entities |-> IF e = Player THEN @[e] ELSE others[e]]]

NoPlayerPos(w) == [w EXCEPT !.ents[Player].pos = NoPos]

\* Mountable entities beside the player, at squared distances 1/9, 4/9, 100 and
\* 400 world units, in each MountState or with none; the player itself is
\* Unmounted, mounted or not, with or without a position.
MountEnts ==
    {Absent} \cup
    {Ent(<<x, 0, 0>>, -1, 0, ms, FALSE) :
        x \in {1, 2, 10 * UNIT, 20 * UNIT}, ms \in {"Unmounted", "MountedBy"}}

MountWorlds ==
    LET placed == {WithEnts([BaseWorld EXCEPT !.mounted = m], o) :
                     m \in BOOLEAN, o \in [Others -> MountEnts]}
    IN  placed \cup {NoPlayerPos(w) : w \in {v \in placed : \A e \in Others : v.ents[e].mount = "Unmounted"}}

\* What an Interact press can find: a collectible or a filled voxel under the
\* cursor, a loose item beside the player, an entity under the cursor.
LootEnts ==
    {Absent,
     Ent(W3(2, 0, 0), -1, 0, "None", TRUE),
     Ent(W3(4, 0, 1), 1, 0, "None", FALSE)}

EdgeWorlds ==
    LET placed == {WithEnts([BaseWorld EXCEPT !.vox = v[1], !.vox_kind = v[2]],
                            [e \in Others |-> IF e = 1 THEN o ELSE Absent]) :
                     v \in {<<NoPos, "Air">>, <<<<5, 0, 2>>, "Collectible">>},
                     o \in LootEnts}
    IN  placed \cup {NoPlayerPos(w) : w \in {v \in placed : v.vox /= NoPos}}

\* What the scan of an Interact press can meet: loose items at squared distances
\* 4, 529/9 and 64 (the range itself) from the player, a body under the cursor
\* that carries no item, and an item with a body under the cursor, 20 units
\* away; with or without a collectible voxel ahead; the player with or without
\* a position.
PickupEnts ==
    {Absent,
     Ent(W3(4, 0, 1), 1, 0, "None", FALSE),
     Ent(W3(20, 0, 1), 1, 0, "None", TRUE)}
        \cup {Ent(<<x, 0, 0>>, -1, 0, "None", TRUE) : x \in {2 * UNIT, 23, 8 * UNIT}}

LootWorlds ==
    LET placed == {WithEnts([BaseWorld EXCEPT !.vox = v[1], !.vox_kind = v[2]],
                            [e \in Others |-> IF e <= 2 THEN o[e] ELSE Absent]) :
                     v \in {<<NoPos, "Air">>, <<<<5, 0, 2>>, "Collectible">>},
                     o \in [{1, 2} -> PickupEnts]}
    IN  placed \cup {NoPlayerPos(w) : w \in {v \in placed : v.ents[2] = Absent}}

\* Terrain under the cursor as in BuildWorlds, seen by a player who stands at the
\* camera, 3 units behind it (a voxel 5 ahead is at the pickup range exactly) or
\* 4 units behind it (the same voxel is out of range), or who has no position.
SelectWorlds ==
    LET placed == {[w EXCEPT !.ents[Player].pos = W3(x, 0, 0)] : w \in BuildWorlds, x \in {0, -3, -4}}
    IN  placed \cup {NoPlayerPos(w) : w \in BuildWorlds}

\* Calls of under_cursor.  Poses (camera position, direction, player position):
\* the camera at the origin looking along +X with the player at the origin, 2
\* units below it (its raised point at the camera) or 250 units behind it; the
\* camera 4 units behind a player who stands on the ray; the camera looking
\* along -X.  Terrain: none, or a filled voxel at (5, 0, 0) or at (11, 0, 0).
\* Bodies of radius 1 and 5 with their aim points on the ray 3, 10, 12 and 14
\* units ahead, 14 ahead and 4 to the side (radius 5), or 10 ahead and 5 to the
\* side (radius 1); or a single body of radius 1 far
\* ahead: at the player's target range, about the end of the terrain ray, and
\* beyond MAX_TARGET_RANGE.
ProbeNear ==
    {Absent,
     Ent(W3(10, 0, -1), 1, 0, "None", FALSE),
     Ent(W3(3, 0, -5), 5, 0, "None", FALSE),
     Ent(W3(12, 0, -5), 5, 0, "None", FALSE),
     Ent(W3(14, 0, -5), 5, 0, "None", FALSE),
     Ent(W3(14, 4, -5), 5, 0, "None", FALSE),
     Ent(W3(10, 5, -1), 1, 0, "None", FALSE)}

ProbeFar == {Ent(W3(x, 0, -1), 1, 0, "None", FALSE) : x \in {50, 51, 100, 101, 200, 306}}

ProbePoses ==
    {<<W3(0, 0, 0), <<1, 0, 0>>, W3(0, 0, 0)>>,
     <<W3(0, 0, 0), <<1, 0, 0>>, W3(0, 0, -2)>>,
     <<W3(0, 0, 0), <<1, 0, 0>>, W3(-250, 0, -2)>>,
     <<W3(-4, 0, 0), <<1, 0, 0>>, W3(0, 0, -1)>>,
     <<W3(0, 0, 0), <<-1, 0, 0>>, W3(0, 0, 0)>>}

ProbeWorlds ==
    LET grounds == {[BaseWorld EXCEPT !.cam_pos = q[1], !.cam_dir = q[2], !.ents[Player].pos = q[3],
                                      !.vox = v[1], !.vox_kind = v[2]] :
                      q \in ProbePoses,
                      v \in {<<NoPos, "Air">>, <<<<5, 0, 0>>, "Filled">>, <<<<11, 0, 0>>, "Filled">>}}
        pairs == [{1, 2} -> ProbeNear] \cup
                 {[e \in {1, 2} |-> IF e = k THEN f ELSE Absent] : k \in {1, 2}, f \in ProbeFar}
        \* the player 320 ahead of the camera, bodies of radius 1 at 10 and at 50
        ahead == [BaseWorld EXCEPT !.cam_pos = W3(0, 0, 0), !.ents[Player].pos = W3(320, 0, -2)]
        lined == [{1, 2} -> {Absent, Ent(W3(10, 0, -1), 1, 0, "None", FALSE),
                             Ent(W3(50, 0, -1), 1, 0, "None", FALSE)}]
    IN  {WithEnts(g, [e \in Others |-> IF e <= 2 THEN o[e] ELSE Absent]) : g \in grounds, o \in pairs}
          \cup {WithEnts(ahead, [e \in Others |-> IF e <= 2 THEN o[e] ELSE Absent]) : o \in lined}

\* Values of MAX_PICKUP_RANGE_SQR a build may have.
ProbeRanges == {16} \cup (24 .. 30) \cup {MAX_PICKUP_RANGE_SQR, 144}

\* Frames with the first or the second entity of the join under the cursor, or
\* with nothing there.
TargetWorlds ==
    {WithEnts(BaseWorld, [e \in Others |-> IF e = k THEN Ent(W3(4, 0, 1), 1, 0, "None", FALSE)
                                          ELSE Absent]) : k \in {0, 1, 2}}

\* The frames of a player without a position component.
AbsentWorlds ==
    {w \in LootWorlds \cup MountWorlds \cup SelectWorlds : w.ents[Player].pos = NoPos}

\* The worlds of the specification that takes every kind of event: a builder,
\* mounted, with a lit lantern and a pending invite, a filled voxel ahead and a
\* body in front of it; a player with a collectible ahead, a loose item and a
\* mountable entity beside it; and the frames of OffGameWorlds.
AllWorlds ==
    OffGameWorlds \cup
    {WithEnts([BaseWorld EXCEPT !.can_build = TRUE, !.vox = <<5, 0, 2>>, !.vox_kind = "Filled",
                                !.lantern = TRUE, !.invite = TRUE, !.mounted = TRUE],
              [e \in Others |-> IF e = 1 THEN Ent(W3(4, 0, 1), 1, 0, "None", FALSE) ELSE Absent]),
     WithEnts([BaseWorld EXCEPT !.vox = <<5, 0, 2>>, !.vox_kind = "Collectible"],
              [e \in Others |-> IF e = 1 THEN Ent(W3(2, 0, 0), -1, 0, "None", TRUE)
                                ELSE IF e = 2 THEN Ent(<<2, 0, 0>>, -1, 0, "Unmounted", FALSE)
                                ELSE Absent])}

Worlds ==
    AllWorlds \cup BuildWorlds \cup EdgeWorlds \cup MountWorlds \cup LootWorlds \cup SelectWorlds
        \cup TargetWorlds

\* The frame's resolution in each world.
Resolution == [w \in Worlds |-> under_cursor(w)]


\* ------------------------------------------------------------------ state
VARIABLES
    pc,                \* "frame": between ticks; "events": in the event loop; "ended"
    result,            \* the PlayStateResult of the last tick
    ticked,            \* the last frame ran the client tick
    world,             \* the client's state during the current frame
    settings,          \* global_state.settings.gameplay
    build_pos, select_pos, can_build,      \* locals of tick, fixed for the frame
    scene_select_pos,  \* self.scene.select_pos()
    target_entity, selected_entity,
    key_state, inputs, selected_block, free_look, auto_walk,
    emitted,           \* the client calls made by the last step
    lastEvent,         \* the event the last step handled
    n_events,          \* events handled so far
    watch, hist, n_changes, n_actions,     \* history of one edge-tracked channel
    since_release,     \* intents or latch flips of an input since its last release
    last_level,        \* the last FreeLook / AutoWalk event and its press behavior
    stopped,           \* stop_auto_walk ran since the last AutoWalk event
    was_selected,      \* selected_entity before the last event handled
    resolved           \* a call of under_cursor: its arguments and what it returned

frameVars == <<world, build_pos, select_pos, can_build, scene_select_pos, target_entity>>

sessionVars == <<selected_entity, key_state, inputs, selected_block, free_look, auto_walk>>

historyVars ==
    <<n_events, watch, hist, n_changes, n_actions, since_release, last_level, stopped, was_selected>>

vars == <<pc, result, ticked, settings, frameVars, sessionVars, emitted, lastEvent, historyVars, resolved>>

EdgeInputs ==
    {"Respawn", "Sit", "Dance", "Sneak", "Glide", "ToggleWield", "SwapLoadout", "Interact"}

RepeatInputs == {"Primary", "Secondary", "Mount", "FreeLook", "AutoWalk"}

LatchInputs == {"FreeLook", "AutoWalk"}

Behaviors == {"Toggle", "Hold"}

SettingsSet ==
    [free_look_behavior : Behaviors, auto_walk_behavior : Behaviors,
     stop_auto_walk_on_input : BOOLEAN]

\* KeyState::default(), ControllerInputs::default()
KeyStateDefault ==
    [respawn |-> FALSE, toggle_sit |-> FALSE, toggle_dance |-> FALSE, toggle_sneak |-> FALSE,
     toggle_glide |-> FALSE, toggle_wield |-> FALSE, swap_loadout |-> FALSE, collect |-> FALSE,
     up |-> FALSE, down |-> FALSE, left |-> FALSE, right |-> FALSE,
     climb_up |-> FALSE, climb_down |-> FALSE, auto_walk |-> FALSE]

InputsDefault ==
    [primary |-> FALSE, secondary |-> FALSE, roll |-> FALSE,
     jump |-> FALSE, swimup |-> FALSE, swimdown |-> FALSE]

\* SessionState::new
InitSession(W, S) ==
    /\ pc = "frame"
    /\ result = "Continue"
    /\ ticked = FALSE
    /\ world = BaseWorld
    /\ settings \in S
    /\ build_pos = NoPos
    /\ select_pos = NoPos
    /\ can_build = FALSE
    /\ scene_select_pos = NoPos
    /\ target_entity = NoEntity
    /\ selected_entity = NoEntity
    /\ key_state = KeyStateDefault
    /\ inputs = InputsDefault
    /\ selected_block = "Misc"
    /\ free_look = FALSE
    /\ auto_walk = FALSE
    /\ emitted = NoIntents
    /\ lastEvent = NoEvent
    /\ n_events = 0
    /\ watch \in W
    /\ hist = <<>>
    /\ n_changes = 0
    /\ n_actions = 0
    /\ since_release = [i \in RepeatInputs |-> 0]
    /\ last_level = [i \in LatchInputs |-> [seen |-> FALSE, state |-> FALSE, hold |-> FALSE]]
    /\ stopped = FALSE
    /\ was_selected = NoEntity

\* No call of under_cursor is on record.
NoOutcome == [build_pos |-> NoPos, select_pos |-> NoPos, target_entity |-> NoEntity, target_dsq |-> -1]

NoProbe ==
    [w |-> BaseWorld, range |-> MAX_PICKUP_RANGE_SQR, cam_dist |-> 0, calls |-> 0,
     prev |-> NoOutcome, out |-> NoOutcome]

InitWith(W, S) == InitSession(W, S) /\ resolved = NoProbe

\* ------------------------------------------------------------ frame steps
\* Mutant of the highlight filter: every select position passes.
SelectFilterAny(w, sp) == sp

\* self.scene.set_select_pos(select_pos.filter(|sp| terrain.get(sp)
\*     .map(|b| b.is_collectible() || can_build).unwrap_or(false)))
SelectFilter(w, sp) ==
    IF sp /= NoPos /\ (TerrainGet(w, sp) = "Collectible" \/ w.can_build) THEN sp ELSE NoPos

\* PlayState::tick up to the event loop: the client's mode decides whether the
\* frame runs; an in-game frame resolves the cursor once, before any event.
BeginFrame(W) ==
    /\ pc = "frame"
    /\ \E w \in W :
        /\ world' = w
        /\ IF w.mode = "in_game"
           THEN /\ pc' = "events"
                /\ result' = result
                /\ build_pos' = Resolution[w].build_pos
                /\ select_pos' = Resolution[w].select_pos
                /\ target_entity' = Resolution[w].target_entity
                /\ can_build' = w.can_build
                /\ scene_select_pos' = SelectFilter(w, Resolution[w].select_pos)
           ELSE /\ pc' = "ended"
                /\ result' = IF w.mode = "registered" THEN "Switch" ELSE "Pop"
                /\ UNCHANGED <<build_pos, select_pos, target_entity, can_build, scene_select_pos>>
    /\ emitted' = NoIntents
    /\ lastEvent' = NoEvent
    /\ UNCHANGED <<ticked, settings, sessionVars, historyVars, resolved>>

\* The HUD events of a frame, in order: none, Quit, or the three settings of the
\* press behaviors changed together (to Hold and stopping on input, or to Toggle
\* and not stopping).
PlainHudEvents == {<<>>, <<<<"Quit", "None">>>>}

HudEvents ==
    PlainHudEvents \cup
    {<<<<"ChangeFreeLookBehavior", b>>, <<"ChangeAutoWalkBehavior", b>>,
       <<"ChangeStopAutoWalkOnInput", b = "Hold">>>> : b \in Behaviors}

\* A HUD event that reaches the settings.
ApplyHudEvent(st, hev) ==
    IF hev[1] = "ChangeFreeLookBehavior" THEN [st EXCEPT !.free_look_behavior = hev[2]]
    ELSE IF hev[1] = "ChangeAutoWalkBehavior" THEN [st EXCEPT !.auto_walk_behavior = hev[2]]
    ELSE IF hev[1] = "ChangeStopAutoWalkOnInput" THEN [st EXCEPT !.stop_auto_walk_on_input = hev[2]]
    ELSE st

\* for event in hud_events: Quit returns at once.
QuitIn(hevs) == \E i \in 1..Len(hevs) : hevs[i][1] = "Quit"

RECURSIVE ApplyHudEvents(_, _)
ApplyHudEvents(st, hevs) ==
    IF hevs = <<>> \/ Head(hevs)[1] = "Quit" THEN st
    ELSE ApplyHudEvents(ApplyHudEvent(st, Head(hevs)), Tail(hevs))

\* Mutant of the frame's end: the client tick runs and the event loop goes on.
EndFrameEarly(H) ==
    /\ pc = "events"
    /\ ticked' = ~world.paused
    /\ UNCHANGED <<pc, result, settings, emitted, lastEvent>>
    /\ UNCHANGED <<frameVars, sessionVars, historyVars, resolved>>

\* PlayState::tick after the event loop: the client tick (unless paused), then
\* the HUD's events.
EndFrame(H) ==
    /\ pc = "events"
    /\ \E tick \in {"Continue", "Disconnect", "Err"}, hevs \in H :
        LET ran == ~world.paused
            dropped == ran /\ tick /= "Continue"
        IN  /\ ticked' = ran
            /\ IF dropped THEN /\ result' = "Pop"
                               /\ pc' = "ended"
                               /\ settings' = settings
               ELSE IF QuitIn(hevs) THEN /\ result' = "Shutdown"
                                         /\ pc' = "ended"
                                         /\ settings' = ApplyHudEvents(settings, hevs)
               ELSE /\ result' = "Continue"
                    /\ pc' = "frame"
                    /\ settings' = ApplyHudEvents(settings, hevs)
    /\ emitted' = NoIntents
    /\ lastEvent' = NoEvent
    /\ UNCHANGED <<frameVars, sessionVars, historyVars, resolved>>

\* ---------------------------------------------------------- event dispatch
\* Mutant: stop_auto_walk that leaves key_state.auto_walk as it was.
stop_auto_walk_latch_only(ks) == ks

\* fn stop_auto_walk: self.auto_walk = false; self.key_state.auto_walk = false
stop_auto_walk(ks) == [ks EXCEPT !.auto_walk = FALSE]

\* Mutant: the arm taken on every event, the guard dropped.
IsEdgeAlways(state, stored) == TRUE

\* The guard of an edge-tracked arm: `if state != self.key_state.<channel>`
IsEdge(state, stored) == state /= stored

\* The key_state field and the client call of each edge-tracked channel.
KeyField(input) ==
    CASE input = "Respawn" -> "respawn"
      [] input = "Sit" -> "toggle_sit"
      [] input = "Dance" -> "toggle_dance"
      [] input = "Sneak" -> "toggle_sneak"
      [] input = "Glide" -> "toggle_glide"
      [] input = "ToggleWield" -> "toggle_wield"
      [] input = "SwapLoadout" -> "swap_loadout"
      [] input = "Interact" -> "collect"

ChannelOps(input) ==
    CASE input = "Respawn" -> {"respawn"}
      [] input = "Sit" -> {"toggle_sit"}
      [] input = "Dance" -> {"toggle_dance"}
      [] input = "Sneak" -> {"toggle_sneak"}
      [] input = "Glide" -> {"toggle_glide"}
      [] input = "ToggleWield" -> {"toggle_wield"}
      [] input = "SwapLoadout" -> {"swap_loadout"}
      [] input = "Interact" -> {"collect_block", "pick_up"}

\* What an event of a repeat-sensitive input did: its intents, or a latch flip.
Fired(input, intents) ==
    CASE input = "Primary" -> CountOps(intents, {"remove_block"})
      [] input = "Secondary" -> CountOps(intents, {"place_block"})
      [] input = "Mount" -> CountOps(intents, {"mount", "unmount"})
      [] input = "FreeLook" -> IF free_look' /= free_look THEN 1 ELSE 0
      [] input = "AutoWalk" -> IF auto_walk' /= auto_walk THEN 1 ELSE 0

Behavior(input) ==
    IF input = "FreeLook" THEN settings.free_look_behavior ELSE settings.auto_walk_behavior

\* An event that reached the match: what every arm leaves alone, and the
\* history of the run.  `stops` says that the arm called stop_auto_walk.
Delivered(input, state, intents, stops) ==
    /\ pc = "events"
    /\ lastEvent' = [input |-> input, state |-> state, consumed |-> FALSE]
    /\ emitted' = intents
    /\ n_events' = n_events + 1
    /\ watch' = watch
    /\ hist' = IF input = watch THEN Append(hist, state) ELSE hist
    /\ n_actions' = IF input = watch THEN n_actions + CountOps(intents, ChannelOps(input))
                    ELSE n_actions
    /\ n_changes' = IF input = watch /\ key_state'[KeyField(input)] /= key_state[KeyField(input)]
                    THEN n_changes + 1 ELSE n_changes
    /\ since_release' =
         IF input \in RepeatInputs
         THEN [since_release EXCEPT ![input] =
                 IF state THEN Min2(2, @ + Fired(input, intents)) ELSE 0]
         ELSE since_release
    /\ last_level' =
         IF input \in LatchInputs
         THEN [last_level EXCEPT ![input] =
                 [seen |-> TRUE, state |-> state, hold |-> Behavior(input) = "Hold"]]
         ELSE last_level
    /\ stopped' = IF input = "AutoWalk" THEN FALSE ELSE (stopped \/ stops)
    /\ was_selected' = selected_entity
    /\ UNCHANGED <<pc, result, ticked, settings, frameVars, resolved>>

\* if self.hud.handle_event(event.clone(), global_state) { continue; }
HudConsumes(I) ==
    /\ pc = "events"
    /\ \E input \in I, state \in BOOLEAN :
        lastEvent' = [input |-> input, state |-> state, consumed |-> TRUE]
    /\ emitted' = NoIntents
    /\ n_events' = n_events + 1
    /\ UNCHANGED <<pc, result, ticked, settings, frameVars, sessionVars, resolved>>
    /\ UNCHANGED <<watch, hist, n_changes, n_actions, since_release, last_level, stopped,
                   was_selected>>

\* Event::Close => return PlayStateResult::Shutdown
\* Mutant of the Close arm: the event loop goes on after it.
HandleCloseContinues ==
    /\ pc = "events"
    /\ lastEvent' = [input |-> "Close", state |-> FALSE, consumed |-> FALSE]
    /\ emitted' = NoIntents
    /\ UNCHANGED <<pc, result, ticked, settings, frameVars, sessionVars, historyVars, resolved>>

HandleClose ==
    /\ pc = "events"
    /\ pc' = "ended"
    /\ result' = "Shutdown"
    /\ lastEvent' = [input |-> "Close", state |-> FALSE, consumed |-> FALSE]
    /\ emitted' = NoIntents
    /\ UNCHANGED <<ticked, settings, frameVars, sessionVars, historyVars, resolved>>

\* Mutants of the Primary guard: can_build alone, the level alone.
PrimaryBuildsAlways(state, cb) == cb

PrimaryBuildsOnPress(state, cb) == state

\* `if state && can_build` of the Primary arm
PrimaryBuilds(state, cb) == state /\ cb

HandlePrimary(state) ==
    LET intents == IF PrimaryBuilds(state, can_build) /\ select_pos /= NoPos
                   THEN <<Intent("remove_block", select_pos, NoEntity, "None")>>
                   ELSE NoIntents
    IN  /\ inputs' = IF PrimaryBuilds(state, can_build) THEN inputs
                     ELSE [inputs EXCEPT !.primary = state]
        /\ UNCHANGED <<selected_entity, key_state, selected_block, free_look, auto_walk>>
        /\ Delivered("Primary", state, intents, FALSE)

\* Mutant of the Secondary guard: the level alone.
SecondaryBuildsOnPress(state, cb) == state

\* `if state && can_build` of the Secondary arm
SecondaryBuilds(state, cb) == state /\ cb

HandleSecondary(state) ==
    LET cleared == [inputs EXCEPT !.secondary = FALSE]
        intents == IF SecondaryBuilds(state, can_build) /\ build_pos /= NoPos
                   THEN <<Intent("place_block", build_pos, NoEntity, selected_block)>>
                   ELSE NoIntents
    IN  /\ inputs' = IF SecondaryBuilds(state, can_build) THEN cleared
                     ELSE [cleared EXCEPT !.secondary = state]
        /\ UNCHANGED <<selected_entity, key_state, selected_block, free_look, auto_walk>>
        /\ Delivered("Secondary", state, intents, FALSE)

\* Mutant of the Roll arm: the block picked on a release as well.
HandleRollAnyLevel(state) ==
    /\ IF can_build
       THEN /\ inputs' = inputs
            /\ selected_block' = IF select_pos /= NoPos
                                 THEN TerrainGet(world, select_pos) ELSE selected_block
       ELSE /\ inputs' = [inputs EXCEPT !.roll = state]
            /\ selected_block' = selected_block
    /\ UNCHANGED <<selected_entity, key_state, free_look, auto_walk>>
    /\ Delivered("Roll", state, NoIntents, FALSE)

HandleRoll(state) ==
    /\ IF can_build
       THEN /\ inputs' = inputs
            /\ selected_block' = IF state /\ select_pos /= NoPos
                                 THEN TerrainGet(world, select_pos) ELSE selected_block
       ELSE /\ inputs' = [inputs EXCEPT !.roll = state]
            /\ selected_block' = selected_block
    /\ UNCHANGED <<selected_entity, key_state, free_look, auto_walk>>
    /\ Delivered("Roll", state, NoIntents, FALSE)

\* An edge-tracked arm that stores the level and calls the client on a press;
\* when the guard fails the event falls through to the scene.
EdgeArm(input, state, stop_on_edge, stop_on_press) ==
    LET f == KeyField(input)
        edge == IsEdge(state, key_state[f])
        stops == edge /\ (stop_on_edge \/ (stop_on_press /\ state))
        stored == IF edge THEN [key_state EXCEPT ![f] = state] ELSE key_state
    IN  /\ key_state' = IF stops THEN stop_auto_walk(stored) ELSE stored
        /\ auto_walk' = IF stops THEN FALSE ELSE auto_walk
        /\ UNCHANGED <<selected_entity, inputs, selected_block, free_look>>
        /\ Delivered(input, state,
                     IF edge /\ state THEN <<ClientOp(CHOOSE op \in ChannelOps(input) : TRUE)>>
                     ELSE NoIntents,
                     stops)

\* Mutant: Respawn without the call of stop_auto_walk.
HandleRespawnNoStop(state) == EdgeArm("Respawn", state, FALSE, FALSE)

\* Mutant: Respawn stopping auto-walk on a press only, as Sit does.
HandleRespawnStopsOnPress(state) == EdgeArm("Respawn", state, FALSE, TRUE)

HandleRespawn(state) == EdgeArm("Respawn", state, TRUE, FALSE)

HandleSit(state) == EdgeArm("Sit", state, FALSE, TRUE)

HandleDance(state) == EdgeArm("Dance", state, FALSE, TRUE)

HandleSneak(state) == EdgeArm("Sneak", state, FALSE, TRUE)

\* Mutant: Glide stopping auto-walk as Sit does.
HandleGlideStops(state) == EdgeArm("Glide", state, FALSE, TRUE)

HandleGlide(state) == EdgeArm("Glide", state, FALSE, FALSE)

HandleToggleWield(state) == EdgeArm("ToggleWield", state, FALSE, FALSE)

HandleSwapLoadout(state) == EdgeArm("SwapLoadout", state, FALSE, FALSE)

\* Jump, SwimUp, SwimDown: self.inputs.<x>.set_state(state)
LevelInputs == {"Jump", "SwimUp", "SwimDown"}

InputField(input) ==
    CASE input = "Jump" -> "jump" [] input = "SwimUp" -> "swimup" [] input = "SwimDown" -> "swimdown"

HandleLevelInput(input, state) ==
    /\ inputs' = [inputs EXCEPT ![InputField(input)] = state]
    /\ UNCHANGED <<selected_entity, key_state, selected_block, free_look, auto_walk>>
    /\ Delivered(input, state, NoIntents, FALSE)

\* MoveForward, MoveBack, MoveLeft, MoveRight
MoveInputs == {"MoveForward", "MoveBack", "MoveLeft", "MoveRight"}

MoveField(input) ==
    CASE input = "MoveForward" -> "up" [] input = "MoveBack" -> "down"
      [] input = "MoveLeft" -> "left" [] input = "MoveRight" -> "right"

\* Mutant of the movement arms' guard: the setting ignored.
MoveStopsOnPress(state, setting) == state

\* `if state && global_state.settings.gameplay.stop_auto_walk_on_input`
MoveStops(state, setting) == state /\ setting

HandleMove(input, state) ==
    LET stops == MoveStops(state, settings.stop_auto_walk_on_input)
        ks == IF stops THEN stop_auto_walk(key_state) ELSE key_state
    IN  /\ key_state' = [ks EXCEPT ![MoveField(input)] = state]
        /\ auto_walk' = IF stops THEN FALSE ELSE auto_walk
        /\ UNCHANGED <<selected_entity, inputs, selected_block, free_look>>
        /\ Delivered(input, state, NoIntents, stops)

\* Climb, ClimbDown
ClimbInputs == {"Climb", "ClimbDown"}

HandleClimb(input, state) ==
    /\ key_state' = [key_state EXCEPT ![IF input = "Climb" THEN "climb_up" ELSE "climb_down"] = state]
    /\ UNCHANGED <<selected_entity, inputs, selected_block, free_look, auto_walk>>
    /\ Delivered(input, state, NoIntents, FALSE)

\* Arms that match a press only and call the client; a release, and every
\* event no arm matches, goes to the scene.
HandleToggleLantern(state) ==
    /\ UNCHANGED sessionVars
    /\ Delivered("ToggleLantern", state,
                 IF ~state THEN NoIntents
                 ELSE IF world.lantern THEN <<ClientOp("disable_lantern")>>
                 ELSE <<ClientOp("enable_lantern")>>,
                 FALSE)

HandleGroupInvite(input, state) ==
    /\ UNCHANGED sessionVars
    /\ Delivered(input, state,
                 IF state /\ world.invite
                 THEN <<ClientOp(IF input = "AcceptGroupInvite" THEN "accept_group_invite"
                                 ELSE "decline_group_invite")>>
                 ELSE NoIntents,
                 FALSE)

SceneInputs == {"CycleCamera", "Analog", "Screenshot", "Other"}

HandleScene(input, state) ==
    /\ UNCHANGED sessionVars
    /\ Delivered(input, state, NoIntents, FALSE)

\* (player_pos.0.distance_squared(pos.0) * 1000.0) as i32, for a squared
\* distance of D model units; the cast saturates.
ScaledDist(D) == Min2((D * DIST_SCALE) \div (UNIT * UNIT), I32_MAX)

\* `if dist > MAX_MOUNT_RANGE_SQR { continue; }`
MountSkips(dist) == dist > MAX_MOUNT_RANGE_SQR

\* The join of the Mount arm: entities with Pos and MountState, not the player.
MountJoin(w) ==
    JoinSeq({e \in Entities : e /= Player /\ w.ents[e].pos /= NoPos /\ w.ents[e].mount /= "None"})

\* The loop that finds closest_mountable: <<entity, dist>>, or <<>> for None.
RECURSIVE ClosestMountable(_, _, _, _)
ClosestMountable(w, ids, player_pos, closest) ==
    IF ids = <<>> THEN closest
    ELSE LET e == Head(ids)
             dist == ScaledDist(DistSq(player_pos, w.ents[e].pos))
             next == IF w.ents[e].mount /= "Unmounted" THEN closest
                     ELSE IF MountSkips(dist) THEN closest
                     ELSE IF closest = <<>> THEN <<e, dist>>
                     ELSE IF dist < closest[2] THEN <<e, dist>>
                     ELSE closest
         IN  ClosestMountable(w, Tail(ids), player_pos, next)

MountIntents(w) ==
    IF w.mounted THEN <<ClientOp("unmount")>>
    ELSE IF w.ents[Player].pos = NoPos THEN NoIntents
    ELSE LET closest == ClosestMountable(w, MountJoin(w), w.ents[Player].pos, <<>>)
         IN  IF closest = <<>> THEN NoIntents
             ELSE <<Intent("mount", NoPos, closest[1], "None")>>

\* Event::InputUpdate(GameInput::Mount, true); a release goes to the scene.
HandleMount(state) ==
    /\ UNCHANGED sessionVars
    /\ Delivered("Mount", state, IF state THEN MountIntents(world) ELSE NoIntents, FALSE)

\* pos.0.distance_squared(player_pos.0) < MAX_PICKUP_RANGE_SQR
PickupInRange(D) == D < MAX_PICKUP_RANGE_SQR * UNIT * UNIT

\* Mutant: the first item in range in join order, whatever its distance.
LootTargetFirst(w, player_pos) ==
    LET near == {e \in Entities : /\ w.ents[e].pos /= NoPos
                                  /\ w.ents[e].item
                                  /\ PickupInRange(DistSq(w.ents[e].pos, player_pos))}
    IN  IF near = {} THEN NoEntity ELSE CHOOSE e \in near : \A o \in near : e <= o

\* .filter(in range).min_by_key(scaled distance): the first of the minima.
LootTarget(w, player_pos) ==
    LET near == {e \in Entities : /\ w.ents[e].pos /= NoPos
                                  /\ w.ents[e].item
                                  /\ PickupInRange(DistSq(w.ents[e].pos, player_pos))}
        key(e) == ScaledDist(DistSq(w.ents[e].pos, player_pos))
    IN  IF near = {} THEN NoEntity
        ELSE CHOOSE e \in near : \A o \in near : key(e) < key(o) \/ (key(e) = key(o) /\ e <= o)

\* Mutant: the pickup run only when there is nothing to collect.
InteractIntentsEither(w, sel, target) ==
    LET pp == w.ents[Player].pos
        entity == IF target /= NoEntity THEN target ELSE LootTarget(w, pp)
    IN  IF sel /= NoPos THEN <<Intent("collect_block", sel, NoEntity, "None")>>
        ELSE IF pp /= NoPos /\ entity /= NoEntity
        THEN <<Intent("pick_up", NoPos, entity, "None")>> ELSE NoIntents

\* Mutant: the frame's target is picked up whether the player has a position or not.
InteractIntentsAnywhere(w, sel, target) ==
    LET collect == IF sel /= NoPos THEN <<Intent("collect_block", sel, NoEntity, "None")>>
                   ELSE NoIntents
        pp == w.ents[Player].pos
        entity == IF target /= NoEntity THEN target
                  ELSE IF pp = NoPos THEN NoEntity ELSE LootTarget(w, pp)
    IN  collect \o (IF entity /= NoEntity
                    THEN <<Intent("pick_up", NoPos, entity, "None")>> ELSE NoIntents)

\* if let Some(select_pos) = self.scene.select_pos() { collect_block }, then the
\* pickup inside `if let Some(player_pos)`
InteractIntents(w, sel, target) ==
    LET collect == IF sel /= NoPos THEN <<Intent("collect_block", sel, NoEntity, "None")>>
                   ELSE NoIntents
        pp == w.ents[Player].pos
        entity == IF target /= NoEntity THEN target ELSE LootTarget(w, pp)
    IN  collect \o (IF pp /= NoPos /\ entity /= NoEntity
                    THEN <<Intent("pick_up", NoPos, entity, "None")>> ELSE NoIntents)

HandleInteract(state) ==
    LET edge == IsEdge(state, key_state.collect)
    IN  /\ key_state' = IF edge THEN [key_state EXCEPT !.collect = state] ELSE key_state
        /\ UNCHANGED <<selected_entity, inputs, selected_block, free_look, auto_walk>>
        /\ Delivered("Interact", state,
                     IF edge /\ state THEN InteractIntents(world, scene_select_pos, target_entity)
                     ELSE NoIntents,
                     FALSE)

\* Mutant: Hold handled as Toggle.
LatchNextFlip(behavior, state, latch) == IF state THEN ~latch ELSE latch

\* match (behavior, state): (Toggle, true) flips, (Hold, state) mirrors, else nothing
LatchNext(behavior, state, latch) ==
    IF behavior = "Toggle" /\ state THEN ~latch
    ELSE IF behavior = "Hold" THEN state
    ELSE latch

HandleFreeLook(state) ==
    /\ free_look' = LatchNext(settings.free_look_behavior, state, free_look)
    /\ UNCHANGED <<selected_entity, key_state, inputs, selected_block, auto_walk>>
    /\ Delivered("FreeLook", state, NoIntents, FALSE)

\* Mutant of the AutoWalk arm: key_state.auto_walk written in Hold mode only.
HandleAutoWalkKeyOnHold(state) ==
    /\ auto_walk' = LatchNext(settings.auto_walk_behavior, state, auto_walk)
    /\ key_state' = IF settings.auto_walk_behavior = "Hold"
                    THEN [key_state EXCEPT !.auto_walk = auto_walk'] ELSE key_state
    /\ UNCHANGED <<selected_entity, inputs, selected_block, free_look>>
    /\ Delivered("AutoWalk", state, NoIntents, FALSE)

HandleAutoWalk(state) ==
    LET written == settings.auto_walk_behavior = "Hold" \/ state
    IN  /\ auto_walk' = LatchNext(settings.auto_walk_behavior, state, auto_walk)
        /\ key_state' = IF written THEN [key_state EXCEPT !.auto_walk = auto_walk']
                        ELSE key_state
        /\ UNCHANGED <<selected_entity, inputs, selected_block, free_look>>
        /\ Delivered("AutoWalk", state, NoIntents, FALSE)

\* if !state { self.selected_entity = self.target_entity.map(..) }
\* Mutant of the Select arm: a release with nothing targeted keeps the selection.
HandleSelectKeeps(state) ==
    /\ selected_entity' = IF ~state /\ target_entity /= NoEntity THEN target_entity
                          ELSE selected_entity
    /\ UNCHANGED <<key_state, inputs, selected_block, free_look, auto_walk>>
    /\ Delivered("Select", state, NoIntents, FALSE)

\* Mutant of the Select arm: the press latches as well.
HandleSelectOnPress(state) ==
    /\ selected_entity' = target_entity
    /\ UNCHANGED <<key_state, inputs, selected_block, free_look, auto_walk>>
    /\ Delivered("Select", state, NoIntents, FALSE)

\* if !state { self.selected_entity = self.target_entity.map(|e| (e, Instant::now())) }
HandleSelect(state) ==
    /\ selected_entity' = IF ~state THEN target_entity ELSE selected_entity
    /\ UNCHANGED <<key_state, inputs, selected_block, free_look, auto_walk>>
    /\ Delivered("Select", state, NoIntents, FALSE)

\* --------------------------------------------------------- specifications
AllInputs ==
    {"Primary", "Secondary", "Roll", "Mount", "FreeLook", "AutoWalk", "Select",
     "ToggleLantern", "AcceptGroupInvite", "DeclineGroupInvite"}
        \cup EdgeInputs \cup LevelInputs \cup MoveInputs \cup ClimbInputs \cup SceneInputs

\* Every arm of the match.
Dispatch ==
    \E state \in BOOLEAN :
        \/ HandlePrimary(state)
        \/ HandleSecondary(state)
        \/ HandleRoll(state)
        \/ HandleRespawn(state)
        \/ \E input \in LevelInputs : HandleLevelInput(input, state)
        \/ HandleSit(state)
        \/ HandleDance(state)
        \/ HandleSneak(state)
        \/ \E input \in MoveInputs : HandleMove(input, state)
        \/ HandleGlide(state)
        \/ \E input \in ClimbInputs : HandleClimb(input, state)
        \/ HandleToggleWield(state)
        \/ HandleSwapLoadout(state)
        \/ HandleToggleLantern(state)
        \/ HandleMount(state)
        \/ HandleInteract(state)
        \/ HandleFreeLook(state)
        \/ HandleAutoWalk(state)
        \/ HandleSelect(state)
        \/ \E input \in {"AcceptGroupInvite", "DeclineGroupInvite"} : HandleGroupInvite(input, state)
        \/ \E input \in SceneInputs : HandleScene(input, state)

DefaultSettings ==
    [free_look_behavior |-> "Toggle", auto_walk_behavior |-> "Toggle",
     stop_auto_walk_on_input |-> TRUE]

\* The construction with the settings left at their defaults.
Init == InitWith({"None"}, {DefaultSettings})

\* The construction under each combination of settings.
InitLatch == InitWith({"None"}, SettingsSet)

Next ==
    \/ BeginFrame(AllWorlds)
    \/ EndFrame(HudEvents)
    \/ n_events < MaxEventsAll /\ HandleClose
    \/ n_events < MaxEventsAll /\ HudConsumes(RepeatInputs)
    \/ n_events < MaxEventsAll /\ Dispatch

Spec == Init /\ [][Next]_vars

\* One edge-tracked channel at a time: every sequence of levels on it.
InitEdge == InitWith(EdgeInputs, {DefaultSettings})

DispatchEdge ==
    \E state \in BOOLEAN :
        \/ watch = "Respawn" /\ HandleRespawn(state)
        \/ watch = "Sit" /\ HandleSit(state)
        \/ watch = "Dance" /\ HandleDance(state)
        \/ watch = "Sneak" /\ HandleSneak(state)
        \/ watch = "Glide" /\ HandleGlide(state)
        \/ watch = "ToggleWield" /\ HandleToggleWield(state)
        \/ watch = "SwapLoadout" /\ HandleSwapLoadout(state)
        \/ watch = "Interact" /\ HandleInteract(state)

NextEdge ==
    \/ BeginFrame(EdgeWorlds \cup OffGameWorlds)
    \/ EndFrame(PlainHudEvents)
    \/ n_events < MaxLevels /\ HudConsumes({watch})
    \/ n_events < MaxLevels /\ DispatchEdge

SpecEdge == InitEdge /\ [][NextEdge]_vars

\* The build inputs.
NextBuild ==
    \/ BeginFrame(BuildWorlds \cup OffGameWorlds)
    \/ EndFrame(PlainHudEvents)
    \/ n_events < MaxEvents /\ \E state \in BOOLEAN :
          HandlePrimary(state) \/ HandleSecondary(state) \/ HandleRoll(state)

SpecBuild == Init /\ [][NextBuild]_vars

\* The mount input.
NextMount ==
    \/ BeginFrame(MountWorlds \cup OffGameWorlds)
    \/ EndFrame(PlainHudEvents)
    \/ n_events < MaxEvents /\ \E state \in BOOLEAN : HandleMount(state)

SpecMount == Init /\ [][NextMount]_vars

\* The press-behavior inputs, with the arms that stop auto-walk.
NextLatch ==
    \/ BeginFrame({BaseWorld} \cup OffGameWorlds)
    \/ EndFrame(PlainHudEvents)
    \/ n_events < MaxEvents /\ \E state \in BOOLEAN :
          \/ HandleFreeLook(state)
          \/ HandleAutoWalk(state)
          \/ HandleRespawn(state)
          \/ HandleSit(state)
          \/ HandleMove("MoveForward", state)

SpecLatch == InitLatch /\ [][NextLatch]_vars

\* The ways a frame ends: the window closed, the client out of the game, the
\* client tick (skipped while paused) and the HUD's Quit.
NextClose ==
    \/ BeginFrame({BaseWorld} \cup OffGameWorlds)
    \/ EndFrame(PlainHudEvents)
    \/ n_events < MaxEvents /\ HandleClose
    \/ n_events < MaxEvents /\ \E state \in BOOLEAN :
          HandleSit(state) \/ HandlePrimary(state) \/ HandleAutoWalk(state)

SpecClose == Init /\ [][NextClose]_vars

\* Auto-walk with the edge-tracked arms that stop it on every edge (Respawn)
\* or never (Glide, ToggleWield, SwapLoadout).
NextRelease ==
    \/ BeginFrame({BaseWorld} \cup OffGameWorlds)
    \/ EndFrame(PlainHudEvents)
    \/ n_events < MaxEvents /\ \E state \in BOOLEAN :
          \/ HandleAutoWalk(state)
          \/ HandleRespawn(state)
          \/ HandleGlide(state)
          \/ HandleToggleWield(state)
          \/ HandleSwapLoadout(state)

SpecRelease == InitLatch /\ [][NextRelease]_vars

\* Auto-walk with the four movement keys, under each combination of settings.
NextMove ==
    \/ BeginFrame({BaseWorld} \cup OffGameWorlds)
    \/ EndFrame(PlainHudEvents)
    \/ n_events < MaxEvents /\ \E state \in BOOLEAN :
          \/ HandleAutoWalk(state)
          \/ \E input \in MoveInputs : HandleMove(input, state)

SpecMove == InitLatch /\ [][NextMove]_vars

\* The arms that act on the select position: Primary, Roll and Interact.
NextSelect ==
    \/ BeginFrame(SelectWorlds \cup OffGameWorlds)
    \/ EndFrame(PlainHudEvents)
    \/ n_events < MaxEventsAll /\ \E state \in BOOLEAN :
          HandlePrimary(state) \/ HandleRoll(state) \/ HandleInteract(state)

SpecSelect == Init /\ [][NextSelect]_vars

\* under_cursor on its own: calls with the same arguments, drawn from
\* ProbeWorlds and ProbeRanges, and what each returned.
InitResolve ==
    /\ InitSession({"None"}, {DefaultSettings})
    /\ \E w \in ProbeWorlds, r \in ProbeRanges : resolved = [NoProbe EXCEPT !.w = w, !.range = r]

\* Mutant of the call: it takes its target out of the snapshot.
ResolveTakesTarget ==
    /\ resolved.calls < MaxCalls
    /\ LET out == UnderCursor(resolved.w, resolved.range)
       IN  resolved' = [resolved EXCEPT !.calls = @ + 1, !.prev = resolved.out, !.out = out,
                                       !.cam_dist = TerrainRay(resolved.w).dist,
                                       !.w = IF out.target_entity = NoEntity THEN @
                                             ELSE [@ EXCEPT !.ents[out.target_entity] = Absent]]
    /\ UNCHANGED <<pc, result, ticked, settings, frameVars, sessionVars, emitted, lastEvent,
                   historyVars>>

Resolve ==
    /\ resolved.calls < MaxCalls
    /\ resolved' = [resolved EXCEPT !.calls = @ + 1, !.prev = resolved.out,
                                    !.cam_dist = TerrainRay(resolved.w).dist,
                                    !.out = UnderCursor(resolved.w, resolved.range)]
    /\ UNCHANGED <<pc, result, ticked, settings, frameVars, sessionVars, emitted, lastEvent,
                   historyVars>>

SpecResolve == InitResolve /\ [][Resolve]_vars

\* The two positions of a hit in range, for any direction of the camera.  A
\* direction is given by a vector v of components -1, 0, 1 (cam_dir is v / |v|)
\* and the ray's distance in steps of |v| / UNIT, so that every point is on the
\* grid of model units; moving 0.01 along the ray moves each coordinate by less
\* than a model unit, in the direction of v.
HitDirs ==
    {<<1, 0, 0>>, <<-1, 0, 0>>, <<0, 1, 0>>, <<0, -1, 0>>, <<0, 0, 1>>, <<0, 0, -1>>,
     <<1, 1, 0>>, <<1, -1, 0>>, <<-1, 1, 0>>, <<-1, -1, 0>>, <<1, 0, 1>>, <<1, 1, 1>>, <<-1, -1, -1>>}

HitCams == {<<x, y, 1>> : x, y \in 0..(UNIT - 1)}

InitFloor ==
    /\ InitSession({"None"}, {DefaultSettings})
    /\ \E c \in HitCams, v \in HitDirs, d \in 0..MaxHitDist :
          resolved = [NoProbe EXCEPT !.w.cam_pos = c, !.w.cam_dir = v, !.cam_dist = d]

\* (Some((cam_pos + cam_dir * (cam_dist - 0.01)).map(floor)),
\*  Some((cam_pos + cam_dir * (cam_dist + 0.01)).map(floor)))
FloorHit ==
    /\ resolved.calls = 0
    /\ resolved' = [resolved EXCEPT
                      !.calls = 1,
                      !.out = Outcome(FloorPoint(resolved.w.cam_pos, resolved.w.cam_dir, resolved.cam_dist, -1),
                                      FloorPoint(resolved.w.cam_pos, resolved.w.cam_dir, resolved.cam_dist, 1),
                                      NoEntity, -1)]
    /\ UNCHANGED <<pc, result, ticked, settings, frameVars, sessionVars, emitted, lastEvent,
                   historyVars>>

SpecFloor == InitFloor /\ [][FloorHit]_vars

\* Frames that run: the build arms over the terrain of BuildWorlds, no frame paused.
NextOrder ==
    \/ BeginFrame(BuildWorlds)
    \/ EndFrame(PlainHudEvents)
    \/ n_events < MaxEvents /\ \E state \in BOOLEAN : HandlePrimary(state) \/ HandleSecondary(state)

SpecOrder == Init /\ [][NextOrder]_vars

\* The Select arm, with an arm that leaves the selection alone.
NextTarget ==
    \/ BeginFrame(TargetWorlds \cup OffGameWorlds)
    \/ EndFrame(PlainHudEvents)
    \/ n_events < MaxEvents /\ HudConsumes({"Select"})
    \/ n_events < MaxEvents /\ \E state \in BOOLEAN : HandleSelect(state) \/ HandlePrimary(state)

SpecTarget == Init /\ [][NextTarget]_vars

\* The Interact arm alone, over the worlds of LootWorlds.
InitLoot == InitWith({"Interact"}, {DefaultSettings})

NextLoot ==
    \/ BeginFrame(LootWorlds \cup OffGameWorlds)
    \/ EndFrame(PlainHudEvents)
    \/ n_events < MaxEventsAll /\ HudConsumes({"Interact"})
    \/ n_events < MaxEventsAll /\ \E state \in BOOLEAN : HandleInteract(state)

SpecLoot == InitLoot /\ [][NextLoot]_vars

\* The arms that read the player's position, in frames where it has none.
NextAbsent ==
    \/ BeginFrame(AbsentWorlds \cup OffGameWorlds)
    \/ EndFrame(PlainHudEvents)
    \/ n_events < MaxEventsAll /\ \E state \in BOOLEAN : HandleMount(state) \/ HandleInteract(state)

SpecAbsent == InitLoot /\ [][NextAbsent]_vars

\* ------------------------------------------------------ claims: helpers
FromEvent(input) == lastEvent.input = input /\ ~lastEvent.consumed

Pressed(input) == FromEvent(input) /\ lastEvent.state

\* Stored level changes and false->true changes in a sequence of levels that
\* starts from the stored level `prev`.
RECURSIVE Transitions(_, _)
Transitions(levels, prev) ==
    IF levels = <<>> THEN 0
    ELSE (IF Head(levels) /= prev THEN 1 ELSE 0) + Transitions(Tail(levels), Head(levels))

RECURSIVE Risings(_, _)
Risings(levels, prev) ==
    IF levels = <<>> THEN 0
    ELSE (IF Head(levels) /\ ~prev THEN 1 ELSE 0) + Risings(Tail(levels), Head(levels))

LastLevel(levels) == IF levels = <<>> THEN FALSE ELSE levels[Len(levels)]

\* The last level of `hist` is a false->true change.
RoseLast == /\ hist /= <<>>
            /\ hist[Len(hist)]
            /\ (Len(hist) = 1 \/ ~hist[Len(hist) - 1])

EdgeLevelTracked ==
    /\ key_state[KeyField(watch)] = LastLevel(hist)
    /\ n_changes = Transitions(hist, FALSE)

\* ---------------------------------------------------------------- claim C1
\* C1 as stated: on every edge-tracked channel, Interact included, the stored
\* level changes exactly when the delivered level differs from it and the
\* channel's action is emitted exactly once per false->true change.
C1_ActionOncePerRise ==
    watch \in EdgeInputs => EdgeLevelTracked /\ n_actions = Risings(hist, FALSE)

\* C1, amended: the stored level of every edge-tracked channel changes exactly
\* when the delivered level differs from it; Respawn, Sit, Dance, Sneak, Glide,
\* ToggleWield and SwapLoadout emit their action exactly once per false->true
\* change and never otherwise; Interact emits only on a false->true change, and
\* then collect_block iff the scene's select position is present and pick_up
\* iff a pickup target is resolved (none, one or both).
C1_EdgeTracker ==
    watch \in EdgeInputs =>
        /\ EdgeLevelTracked
        /\ watch /= "Interact" => n_actions = Risings(hist, FALSE)
        /\ watch = "Interact" =>
            /\ n_actions <= 2 * Risings(hist, FALSE)
            /\ FromEvent("Interact") =>
                /\ HasOp(emitted, "collect_block") <=> (RoseLast /\ scene_select_pos /= NoPos)
                /\ HasOp(emitted, "pick_up") <=>
                      /\ RoseLast
                      /\ world.ents[Player].pos /= NoPos
                      /\ (target_entity /= NoEntity
                          \/ LootTarget(world, world.ents[Player].pos) /= NoEntity)
                /\ Len(emitted) <= 2

\* Levels [false, true, true, false, true] on Sit: 3 changes, 2 toggle_sit.
C1_Witness ==
    /\ watch = "Sit"
    /\ hist = <<FALSE, TRUE, TRUE, FALSE, TRUE>>
    /\ n_changes = 3
    /\ n_actions = 2
    /\ emitted = <<ClientOp("toggle_sit")>>

\* ---------------------------------------------------------------- claim C2
\* Squared distance (model units) within MAX_MOUNT_RANGE_SQR world units.
WithinMountRange(D) == D <= MAX_MOUNT_RANGE_SQR * UNIT * UNIT

\* The Unmounted entities other than the player within MAX_MOUNT_RANGE_SQR of it.
MountCandidates ==
    IF world.ents[Player].pos = NoPos THEN {}
    ELSE {e \in Others : /\ world.ents[e].pos /= NoPos
                         /\ world.ents[e].mount = "Unmounted"
                         /\ WithinMountRange(DistSq(world.ents[Player].pos, world.ents[e].pos))}

MountDist(e) == DistSq(world.ents[Player].pos, world.ents[e].pos)

MountOf(e) == <<Intent("mount", NoPos, e, "None")>>

\* C2: a Mount press of an unmounted player mounts the Unmounted entity other
\* than the player with the smallest squared distance among those whose squared
\* distance is within MAX_MOUNT_RANGE_SQR (100 and 400 against 500: the one at 100).
C2_MountsNearestInRange ==
    (Pressed("Mount") /\ ~world.mounted /\ MountCandidates /= {}) =>
        \E e \in MountCandidates :
            /\ emitted = MountOf(e)
            /\ \A o \in MountCandidates : MountDist(e) <= MountDist(o)

\* ---------------------------------------------------------------- claim C3
\* C3 as stated: a Primary event that does not emit RemoveBlock, that is not
\* (can_build and level true and select_pos present), sets the primary input
\* to the event's level.
C3_PrimaryForwardsUnlessRemove ==
    (FromEvent("Primary") /\ ~(can_build /\ lastEvent.state /\ select_pos /= NoPos))
        => inputs.primary = lastEvent.state

\* C3, amended: a Primary event with not (can_build and level true) sets the
\* primary input to the event's level; a Primary press with can_build leaves
\* the primary input as it was, with or without a select_pos.
C3_PrimaryForwardsUnlessBuilding ==
    [][(lastEvent'.input = "Primary" /\ ~lastEvent'.consumed) =>
          inputs'.primary = IF can_build /\ lastEvent'.state THEN inputs.primary
                            ELSE lastEvent'.state]_vars

\* A press with can_build and nothing selected: no intent, no attack signal.
C3_Witness ==
    /\ Pressed("Primary")
    /\ can_build
    /\ select_pos = NoPos
    /\ emitted = NoIntents
    /\ ~inputs.primary

\* ---------------------------------------------------------------- claim C4
\* C4 as stated: after a Secondary event that does not emit PlaceBlock, that is
\* not (can_build and level true and build_pos present), the secondary input
\* equals the event's level.
C4_SecondaryForwardsUnlessPlace ==
    (FromEvent("Secondary") /\ ~(can_build /\ lastEvent.state /\ build_pos /= NoPos))
        => inputs.secondary = lastEvent.state

\* C4, amended: after every Secondary event the secondary input is true exactly
\* when the level is true and the player cannot build; a press with can_build
\* leaves it false, with or without a build_pos.
C4_SecondaryClearedWhenBuilding ==
    FromEvent("Secondary") => inputs.secondary = (lastEvent.state /\ ~can_build)

C4_Witness ==
    /\ Pressed("Secondary")
    /\ can_build
    /\ build_pos = NoPos
    /\ emitted = NoIntents
    /\ ~inputs.secondary

\* ---------------------------------------------------------------- claim C5
\* C5: remove_block(p) comes only from a Primary event with level true, build
\* permission and p the frame's select_pos; place_block(p, b) only from a
\* Secondary event with level true, build permission, p the frame's build_pos
\* and b the selected block.
C5_BuildIntentsGuarded ==
    \A i \in 1..Len(emitted) :
        /\ emitted[i].op = "remove_block" =>
              /\ Pressed("Primary")
              /\ world.can_build
              /\ select_pos /= NoPos
              /\ emitted[i].pos = select_pos
        /\ emitted[i].op = "place_block" =>
              /\ Pressed("Secondary")
              /\ world.can_build
              /\ build_pos /= NoPos
              /\ emitted[i].pos = build_pos
              /\ emitted[i].block = selected_block

\* A block picked with Roll is placed by the next Secondary press.
C5_Witness ==
    /\ Pressed("Secondary")
    /\ world.can_build
    /\ selected_block = "Filled"
    /\ emitted = <<Intent("place_block", build_pos, NoEntity, "Filled")>>

\* ---------------------------------------------------------------- claim C6
\* C6: level-true Primary (Secondary) events with no level-false event of the
\* same input between them emit at most one remove_block (place_block).
C6_BuildOncePerPress ==
    since_release["Primary"] <= 1 /\ since_release["Secondary"] <= 1

\* ---------------------------------------------------------------- claim C7
\* C7: level-true Mount events with no level-false Mount event between them
\* emit at most one mount or unmount intent in total.
C7_MountOncePerPress == since_release["Mount"] <= 1

\* ---------------------------------------------------------------- claim C8
\* C8: a Mount press emits unmount iff the player is mounted, mount(e) iff it
\* is not and a candidate is in range, else nothing; e is never the player and
\* never in a MountState other than Unmounted.
C8_MountPressOutcome ==
    Pressed("Mount") =>
        /\ Len(emitted) <= 1
        /\ world.mounted <=> emitted = <<ClientOp("unmount")>>
        /\ (~world.mounted /\ MountCandidates /= {}) <=> HasOp(emitted, "mount")
        /\ \A i \in 1..Len(emitted) :
              emitted[i].op = "mount" =>
                  /\ emitted[i].ent \in Others
                  /\ world.ents[emitted[i].ent].mount = "Unmounted"

\* ---------------------------------------------------------------- claim C9
\* C9: under Toggle a latch changes only on a rising edge of its input: a
\* level-false event leaves it alone, and so does a level-true event that
\* follows a level-true event of the same input.
C9_ToggleFlipsOnRisingEdge ==
    [][\A i \in LatchInputs :
          (lastEvent'.input = i /\ ~lastEvent'.consumed /\ Behavior(i) = "Toggle") =>
              LET rising == lastEvent'.state /\ ~(last_level[i].seen /\ last_level[i].state)
              IN  IF i = "FreeLook"
                  THEN free_look' = (IF rising THEN ~free_look ELSE free_look)
                  ELSE auto_walk' = (IF rising THEN ~auto_walk ELSE auto_walk)]_vars

\* --------------------------------------------------------------- claim C10
\* The last event of the input was handled under Hold, which is still set.
HeldLast(input) ==
    /\ last_level[input].seen
    /\ last_level[input].hold
    /\ Behavior(input) = "Hold"

\* C10 as stated: under Hold each latch equals the level of the last event of
\* its input, whatever other events were handled since.
C10_HoldMirrorsLevel ==
    /\ HeldLast("FreeLook") => free_look = last_level["FreeLook"].state
    /\ HeldLast("AutoWalk") => auto_walk = last_level["AutoWalk"].state

\* C10, amended: under Hold the free-look latch equals the level of the last
\* FreeLook event; the auto-walk latch equals the level of the last AutoWalk
\* event unless stop_auto_walk ran since that event, and then it is false.
C10_HoldMirrorsUntilStopped ==
    /\ HeldLast("FreeLook") => free_look = last_level["FreeLook"].state
    /\ HeldLast("AutoWalk") =>
          auto_walk = (last_level["AutoWalk"].state /\ ~stopped)

\* Auto-walk held, then cleared by another input while the key is still down.
C10_Witness ==
    /\ HeldLast("AutoWalk")
    /\ last_level["AutoWalk"].state
    /\ stopped
    /\ ~auto_walk
    /\ lastEvent.input \notin LatchInputs

\* ------------------------------------------------------- claims C11 - C13
\* The step delivered an event of `input` to the match.
Handles(input) == lastEvent'.input = input /\ ~lastEvent'.consumed

\* The step delivered a level-true event of an edge-tracked channel whose
\* stored level was false.
RisingEdge(input) == Handles(input) /\ lastEvent'.state /\ ~key_state[KeyField(input)]

AutoWalkOff == ~auto_walk /\ ~key_state.auto_walk

\* The auto-walk latch was set by the last AutoWalk event and then stopped.
AutoWalkWasStopped ==
    /\ last_level["AutoWalk"].seen
    /\ last_level["AutoWalk"].state
    /\ stopped
    /\ AutoWalkOff

\* C11: a rising edge on Sit, Dance or Sneak leaves auto_walk and
\* key_state.auto_walk false under every press behavior, and emits the
\* channel's toggle intent in the same step.
C11_PoseStopsAutoWalk ==
    [][\A input \in {"Sit", "Dance", "Sneak"} :
          RisingEdge(input) =>
              /\ AutoWalkOff'
              /\ key_state'[KeyField(input)]
              /\ emitted' = <<ClientOp(CHOOSE op \in ChannelOps(input) : TRUE)>>]_vars

\* Auto-walk held under Hold, then a Dance press.
C11_Witness ==
    /\ Pressed("Dance")
    /\ emitted = <<ClientOp("toggle_dance")>>
    /\ settings.auto_walk_behavior = "Hold"
    /\ AutoWalkWasStopped

\* C12: a rising edge on Respawn emits exactly one respawn intent and leaves
\* auto_walk and key_state.auto_walk false.
C12_RespawnStopsAutoWalk ==
    [][RisingEdge("Respawn") =>
          /\ AutoWalkOff'
          /\ key_state'.respawn
          /\ emitted' = <<ClientOp("respawn")>>]_vars

C12_Witness ==
    /\ Pressed("Respawn")
    /\ emitted = <<ClientOp("respawn")>>
    /\ AutoWalkWasStopped

\* The key_state field an input owns, "none" if it owns none.
OwnField(input) ==
    IF input \in EdgeInputs THEN KeyField(input)
    ELSE IF input \in MoveInputs THEN MoveField(input)
    ELSE IF input = "Climb" THEN "climb_up"
    ELSE IF input = "ClimbDown" THEN "climb_down"
    ELSE IF input = "AutoWalk" THEN "auto_walk"
    ELSE "none"

AutoWalkStoppers == {"Respawn", "Sit", "Dance", "Sneak"} \cup MoveInputs

\* C13: an event writes no key_state field but its own, so no edge-tracked
\* channel's stored level is changed by another channel's event; the one
\* exception is auto-walk (auto_walk and key_state.auto_walk), which Respawn,
\* Sit, Dance, Sneak and the movement keys reset to false.
C13_ChannelsIndependent ==
    [][\A input \in AllInputs \cup {"Close"} :
          lastEvent'.input = input =>
              /\ \A f \in DOMAIN key_state :
                    (f /= OwnField(input) /\ key_state'[f] /= key_state[f]) =>
                        (f = "auto_walk" /\ input \in AutoWalkStoppers /\ ~key_state'[f])
              /\ (input /= "AutoWalk" /\ auto_walk' /= auto_walk) =>
                    (input \in AutoWalkStoppers /\ ~auto_walk')]_vars

\* Two channels pressed one after the other, both stored.
C13_Witness ==
    /\ Pressed("Dance")
    /\ key_state.toggle_dance
    /\ key_state.toggle_sit
    /\ ~key_state.toggle_sneak

\* ------------------------------------------------------- claims C14 - C15
\* The items within pickup range of the player: squared distance strictly
\* below MAX_PICKUP_RANGE_SQR.
ItemsInRange ==
    IF world.ents[Player].pos = NoPos THEN {}
    ELSE {e \in Entities : /\ world.ents[e].pos /= NoPos
                           /\ world.ents[e].item
                           /\ DistSq(world.ents[e].pos, world.ents[Player].pos)
                                < MAX_PICKUP_RANGE_SQR * UNIT * UNIT}

ItemKey(e) == ScaledDist(DistSq(world.ents[e].pos, world.ents[Player].pos))

\* The entities a pickup may go to: the frame's target, else the nearest items.
PickupTargets ==
    IF world.ents[Player].pos = NoPos THEN {}
    ELSE IF target_entity /= NoEntity THEN {target_entity}
    ELSE {e \in ItemsInRange : \A o \in ItemsInRange : ItemKey(e) <= ItemKey(o)}

PickUps(intents) == {intents[i].ent : i \in {j \in 1..Len(intents) : intents[j].op = "pick_up"}}

Collects(intents) == {intents[i].pos : i \in {j \in 1..Len(intents) : intents[j].op = "collect_block"}}

\* C14: an Interact rising edge emits collect_block(p) iff the frame's select
\* position p (the scene's) is present and, independently, pick_up(e) iff a
\* pickup target is resolved; an event that is no rising edge emits neither.
C14_InteractEmitsBoth ==
    [][Handles("Interact") =>
          /\ Len(emitted') <= 2
          /\ CountOps(emitted', {"collect_block"}) <= 1
          /\ CountOps(emitted', {"pick_up"}) <= 1
          /\ \A i \in 1..Len(emitted') : emitted'[i].op \in {"collect_block", "pick_up"}
          /\ IF RisingEdge("Interact")
             THEN /\ Collects(emitted') = {scene_select_pos} \ {NoPos}
                  /\ (PickUps(emitted') /= {}) <=> (PickupTargets /= {})
             ELSE emitted' = NoIntents]_vars

\* One edge, both intents.
C14_Witness ==
    /\ Pressed("Interact")
    /\ Len(emitted) = 2
    /\ emitted[1] = Intent("collect_block", scene_select_pos, NoEntity, "None")
    /\ emitted[2].op = "pick_up"
    /\ hist = <<TRUE>>

\* C15: on an Interact rising edge of a player with a position, pick_up goes to
\* the frame's target_entity if there is one, else to an item with the least
\* scaled squared distance among the items strictly within MAX_PICKUP_RANGE_SQR,
\* and to nothing if there is none.
C15_PickupTarget ==
    [][(RisingEdge("Interact") /\ world.ents[Player].pos /= NoPos) =>
          IF target_entity /= NoEntity THEN PickUps(emitted') = {target_entity}
          ELSE IF ItemsInRange = {} THEN PickUps(emitted') = {}
          ELSE \E e \in ItemsInRange :
                  /\ PickUps(emitted') = {e}
                  /\ \A o \in ItemsInRange : ItemKey(e) <= ItemKey(o)]_vars

\* No target under the cursor, two items in range; the second of the join is
\* the nearer one and is the one picked up.
C15_Witness ==
    /\ Pressed("Interact")
    /\ target_entity = NoEntity
    /\ ItemsInRange = {1, 2}
    /\ ItemKey(2) < ItemKey(1)
    /\ PickUps(emitted) = {2}

\* ------------------------------------------------------------- claim C16
\* The frame had a voxel hit within MAX_PICKUP_RANGE_SQR of the player point,
\* and the voxel at the select position p is collectible or the player may build.
SelectableFrame(p) ==
    LET ray == TerrainRay(world)
        hit_point == VAdd(world.cam_pos, VScale(world.cam_dir, ray.dist))
    IN  /\ ray.hit
        /\ DistSq(PlayerPoint(world), hit_point) <= MAX_PICKUP_RANGE_SQR * UNIT * UNIT
        /\ p = FloorPoint(world.cam_pos, world.cam_dir, ray.dist, 1)
        /\ (TerrainGet(world, p) = "Collectible" \/ world.can_build)

\* C16: a remove_block, a collect_block and the block pick of Roll happen only
\* in a frame with a voxel hit within MAX_PICKUP_RANGE_SQR of the player point
\* (the player's position + 2.0 in z; the camera for a player without a
\* position) whose voxel at select_pos is collectible or whose player may build;
\* the intent carries that select position and Roll picks that voxel's block.
C16_SelectIntentsNeedSelection ==
    [][/\ \A i \in 1..Len(emitted') :
             emitted'[i].op \in {"remove_block", "collect_block"} => SelectableFrame(emitted'[i].pos)
       /\ selected_block' /= selected_block =>
             /\ Handles("Roll")
             /\ SelectableFrame(select_pos)
             /\ selected_block' = TerrainGet(world, select_pos)]_vars

\* A collect at the range exactly, and a block picked in the same session.
C16_Witness ==
    /\ Pressed("Interact")
    /\ HasOp(emitted, "collect_block")
    /\ world.ents[Player].pos = W3(-3, 0, 0)
    /\ selected_block = "Filled"

\* ------------------------------------------------------ claims C17 - C20
\* under_cursor has returned.
Returned == resolved.calls >= 1

\* The scenario of C17: player and camera at the origin, nothing but the voxel.
VoxelAhead ==
    /\ resolved.w.cam_dir = <<1, 0, 0>>
    /\ resolved.w.ents[Player].pos = W3(0, 0, 0)
    /\ resolved.w.cam_pos = W3(0, 0, 0)
    /\ resolved.w.vox = <<5, 0, 0>>
    /\ TerrainRay(resolved.w) = [dist |-> 5 * UNIT, hit |-> TRUE]

\* C17 as stated: any MAX_PICKUP_RANGE_SQR >= 25 gives select (5,0,0), build (4,0,0).
C17_RangeFiveSelects ==
    (Returned /\ VoxelAhead /\ resolved.range >= 25) =>
        /\ resolved.out.select_pos = <<5, 0, 0>>
        /\ resolved.out.build_pos = <<4, 0, 0>>

\* C17, amended: the range is measured from the player's point 2 units above
\* the origin, at squared distance 29 from the hit; any MAX_PICKUP_RANGE_SQR
\* >= 29 gives select (5,0,0) and build (4,0,0), and a smaller one gives neither.
C17_RangeFromRaisedPoint ==
    (Returned /\ VoxelAhead) =>
        IF resolved.range >= 29
        THEN /\ resolved.out.select_pos = <<5, 0, 0>>
             /\ resolved.out.build_pos = <<4, 0, 0>>
        ELSE /\ resolved.out.select_pos = NoPos
             /\ resolved.out.build_pos = NoPos

C17_Witness ==
    /\ Returned /\ VoxelAhead
    /\ resolved.range = 29
    /\ resolved.out.select_pos = <<5, 0, 0>>
    /\ resolved.out.build_pos = <<4, 0, 0>>

\* The bodies of the scenarios: radius 1 and 5, placed by their aim points.
SmallAt(x) == Ent(W3(x, 0, -1), 1, 0, "None", FALSE)

BigAt(x) == Ent(W3(x, 0, -5), 5, 0, "None", FALSE)

\* The scenario of C18: the camera at the origin looks along +X, A (radius 1,
\* aim point (10,0,0)) is entity a, B (radius 5, aim point (3,0,0)) is entity
\* b, and the terrain ray hits nothing.
BodiesAhead(a, b) ==
    /\ resolved.w.cam_pos = W3(0, 0, 0)
    /\ resolved.w.cam_dir = <<1, 0, 0>>
    /\ resolved.w.ents[a] = SmallAt(10)
    /\ resolved.w.ents[b] = BigAt(3)
    /\ ~TerrainRay(resolved.w).hit

\* C18 as stated: the target is B.
C18_TargetsNearerSurface ==
    \A a, b \in {1, 2} : (Returned /\ BodiesAhead(a, b)) => resolved.out.target_entity = b

\* C18, amended: the camera is inside B's sphere (3 <= 5), the resolver ignores
\* entities intersecting the camera, and the target is A.
C18_IgnoresBodyAroundCamera ==
    \A a, b \in {1, 2} : (Returned /\ BodiesAhead(a, b)) => resolved.out.target_entity = a

C18_Witness ==
    /\ Returned /\ BodiesAhead(2, 1)
    /\ resolved.out.target_entity = 2
    /\ DistSq(AimPoint(resolved.w.ents[1]), resolved.w.cam_pos) <= Sq(Radius(resolved.w.ents[1]))

\* The aim point's squared distance from the camera, and the cast distance.
AimDsq(e) == DistSq(AimPoint(resolved.w.ents[e]), resolved.w.cam_pos)

CastDist ==
    IF TerrainRay(resolved.w).hit THEN Min2(TerrainRay(resolved.w).dist, MAX_TARGET_RANGE * UNIT)
    ELSE MAX_TARGET_RANGE * UNIT

\* The candidates that survive the filters and whose spheres the camera
\* segment intersects.
Crossed ==
    {e \in Others :
        /\ resolved.w.ents[e].pos /= NoPos
        /\ resolved.w.ents[e].body >= 0
        /\ InReach(AimDsq(e), Radius(resolved.w.ents[e]), CastDist)
        /\ DistSq(ProjectedPoint(resolved.w.cam_pos, resolved.w.cam_dir, TerrainRay(resolved.w).dist,
                                 AimPoint(resolved.w.ents[e])),
                  AimPoint(resolved.w.ents[e])) < Sq(Radius(resolved.w.ents[e]))}

NearerSurface(o, e) ==
    SurfaceLess(AimDsq(o), Radius(resolved.w.ents[o]), AimDsq(e), Radius(resolved.w.ents[e]))

WithinTargetRange(e) ==
    DistSq(AimPoint(resolved.w.ents[e]), PlayerPoint(resolved.w))
        < Sq(MAX_TARGET_RANGE * UNIT + Radius(resolved.w.ents[e]))

\* C19: the candidate considered for targeting is an intersecting survivor
\* with the least (distance from the camera to the aim point - radius); it is
\* the target when it is within MAX_TARGET_RANGE of the player point.
C19_LeastSurfaceDistance ==
    Returned =>
        /\ resolved.out.target_entity /= NoEntity =>
              /\ resolved.out.target_entity \in Crossed
              /\ \A o \in Crossed \ {resolved.out.target_entity} :
                    ~NearerSurface(o, resolved.out.target_entity)
        /\ (Crossed /= {} /\ \A e \in Crossed : WithinTargetRange(e)) =>
              resolved.out.target_entity /= NoEntity

\* Radius 1 at 10 and radius 5 at 12: the farther centre has the nearer
\* surface (7 against 9) and is the target.
C19_Witness ==
    /\ Returned
    /\ resolved.w.ents[1] = SmallAt(10)
    /\ resolved.w.ents[2] = BigAt(12)
    /\ Crossed = {1, 2}
    /\ AimDsq(1) < AimDsq(2)
    /\ resolved.out.target_entity = 2

\* C20: with no voxel hit, a body the camera ray crosses with its surface at
\* most MAX_TARGET_RANGE from the camera (the camera outside it), the only one
\* there is, and within MAX_TARGET_RANGE of the player point, is the target.
C20_FullRangeWithoutHit ==
    \A e \in {1, 2} :
        (/\ Returned
         /\ ~TerrainRay(resolved.w).hit
         /\ resolved.w.ents[e] \in {SmallAt(x) : x \in 1..(MAX_TARGET_RANGE + 1)}
         /\ resolved.w.ents[3 - e] = Absent
         /\ AimDsq(e) > Sq(Radius(resolved.w.ents[e]))
         /\ AimDsq(e) <= Sq(MAX_TARGET_RANGE * UNIT + Radius(resolved.w.ents[e]))
         /\ WithinTargetRange(e))
        => resolved.out.target_entity = e

\* ------------------------------------------------------ claims C21 - C27
Target == resolved.out.target_entity

\* The sphere of e meets the camera's ray within len of the camera.
MeetsSegment(e, len) ==
    \E t \in 0..len :
        DistSq(VAdd(resolved.w.cam_pos, VScale(resolved.w.cam_dir, t)), AimPoint(resolved.w.ents[e]))
            < Sq(Radius(resolved.w.ents[e]))

\* C21: with a voxel hit at distance d, a target's aim point is no farther
\* from the camera than d + radius and its sphere intersects the camera segment
\* of length d.
C21_TerrainOccludes ==
    (Returned /\ TerrainRay(resolved.w).hit /\ Target /= NoEntity) =>
        /\ AimDsq(Target) <= Sq(TerrainRay(resolved.w).dist + Radius(resolved.w.ents[Target]))
        /\ MeetsSegment(Target, TerrainRay(resolved.w).dist)

\* A voxel 11 ahead; a body of radius 5 behind it, 14 ahead and 4 to the side,
\* passes the coarse filter and meets the ray, but not the segment: no target.
C21_Witness ==
    /\ Returned
    /\ TerrainRay(resolved.w) = [dist |-> 11 * UNIT, hit |-> TRUE]
    /\ resolved.w.ents[1] = Ent(W3(14, 4, -5), 5, 0, "None", FALSE)
    /\ resolved.w.ents[2] = Absent
    /\ InReach(AimDsq(1), Radius(resolved.w.ents[1]), CastDist)
    /\ MeetsSegment(1, RAY_LIMIT * UNIT)
    /\ Target = NoEntity

\* C22: the target is never the player's own entity.
C22_NeverTargetsPlayer == Returned => Target /= Player

\* The camera behind the player, whose sphere the segment crosses first; the
\* target is the body behind the player.
C22_Witness ==
    /\ Returned
    /\ MeetsSegment(Player, TerrainRay(resolved.w).dist)
    /\ AimDsq(Player) > Sq(Radius(resolved.w.ents[Player]))
    /\ Target = 1
    /\ AimDsq(Player) < AimDsq(1)

\* C23: a target's aim point is less than MAX_TARGET_RANGE + radius from the
\* player point, and the distance returned with it is the one to the player
\* point.
C23_TargetWithinPlayerRange ==
    (Returned /\ Target /= NoEntity) =>
        /\ DistSq(AimPoint(resolved.w.ents[Target]), PlayerPoint(resolved.w))
             < Sq(MAX_TARGET_RANGE * UNIT + Radius(resolved.w.ents[Target]))
        /\ resolved.out.target_dsq = DistSq(AimPoint(resolved.w.ents[Target]), PlayerPoint(resolved.w))

\* The player 250 behind the camera, the body 50 ahead of it: 300 from the
\* player, accepted with that distance and not the camera's 50.
C23_Witness ==
    /\ Returned
    /\ Target = 1
    /\ AimDsq(1) = Sq(50 * UNIT)
    /\ resolved.out.target_dsq = Sq(MAX_TARGET_RANGE * UNIT)

\* C24: with no voxel hit and every other entity farther from the camera than
\* MAX_TARGET_RANGE + its radius, the resolver returns (None, None, None).
C24_NothingInRange ==
    (/\ Returned
     /\ ~TerrainRay(resolved.w).hit
     /\ \A e \in Others : \/ resolved.w.ents[e].pos = NoPos
                          \/ AimDsq(e) > Sq(MAX_TARGET_RANGE * UNIT + Radius(resolved.w.ents[e])))
    => resolved.out = NoOutcome

\* A body on the ray, beyond the range.
C24_Witness ==
    /\ Returned
    /\ ~TerrainRay(resolved.w).hit
    /\ resolved.w.ents[2] = SmallAt(306)
    /\ resolved.w.ents[1] = Absent
    /\ resolved.out = NoOutcome

\* C25: build_pos and select_pos are present together, exactly when the ray
\* hit a voxel whose hit point is within the pickup range of the player point,
\* whether an entity is targeted or not.
C25_TerrainPositionsTogether ==
    Returned =>
        LET ray == TerrainRay(resolved.w)
            hit_point == VAdd(resolved.w.cam_pos, VScale(resolved.w.cam_dir, ray.dist))
            within == /\ ray.hit
                      /\ DistSq(PlayerPoint(resolved.w), hit_point) <= resolved.range * UNIT * UNIT
        IN  /\ (resolved.out.build_pos /= NoPos) <=> within
            /\ (resolved.out.select_pos /= NoPos) <=> within

\* Both outputs at once: a voxel in range and a body in front of it.
C25_Witness ==
    /\ Returned
    /\ resolved.out.select_pos = <<11, 0, 0>>
    /\ resolved.out.build_pos = <<10, 0, 0>>
    /\ Target = 2

HitPoint == VAdd(resolved.w.cam_pos, VScale(resolved.w.cam_dir, resolved.cam_dist))

\* The ray crosses the grid plane of coordinate k at the hit point, that is,
\* between the points 0.01 before and 0.01 after it.
CrossesPlane(k) == resolved.w.cam_dir[k] /= 0 /\ HitPoint[k] % UNIT = 0

StepsIn(k) == resolved.out.select_pos[k] - resolved.out.build_pos[k]

SelectReleased == Handles("Select") /\ ~lastEvent'.state

\* C28 as stated: a selected entity is never reset to empty.
C28_SelectionNeverCleared ==
    [][selected_entity /= NoEntity => selected_entity' /= NoEntity]_vars

\* C28, amended: a selected entity survives frames and events until the next
\* Select release, which replaces it with the frame's target_entity and resets
\* it to empty when nothing is targeted.
C28_SelectionHeldUntilRelease ==
    [][selected_entity /= NoEntity =>
          /\ ~SelectReleased => selected_entity' = selected_entity
          /\ (SelectReleased /\ target_entity /= NoEntity) => selected_entity' = target_entity
          /\ (SelectReleased /\ target_entity = NoEntity) => selected_entity' = NoEntity]_vars

\* A release with nothing under the cursor has cleared the selection.
C28_Witness ==
    /\ FromEvent("Select") /\ ~lastEvent.state
    /\ was_selected /= NoEntity
    /\ target_entity = NoEntity
    /\ selected_entity = NoEntity

\* C29: selected_entity is written only by a handled Select release, which
\* gives it the frame's target_entity; a Select press, any other event and the
\* frame's recomputation of target_entity leave it as it was.
C29_SelectionWrittenOnRelease ==
    [][/\ selected_entity' = IF SelectReleased THEN target_entity ELSE selected_entity
       /\ target_entity' /= target_entity => ~SelectReleased]_vars

\* The entity latched by a release in an earlier frame stays selected through
\* a Select press in a frame whose target_entity is another.
C29_Witness ==
    /\ Pressed("Select")
    /\ selected_entity /= NoEntity
    /\ was_selected = selected_entity
    /\ target_entity /= selected_entity

\* ------------------------------------------------------------- claim C30
\* C30: the resolution and can_build are set by the step that opens the frame,
\* before any event; every event of the frame is handled inside the event loop
\* against those values, which it leaves as they are, and before the client
\* tick; the client tick runs in the step that closes the event loop.
C30_ResolveDispatchApply ==
    [][/\ frameVars' /= frameVars =>
             /\ pc = "frame" /\ lastEvent' = NoEvent
             /\ pc' = "events" =>
                   /\ <<build_pos', select_pos', target_entity'>>
                        = <<under_cursor(world').build_pos, under_cursor(world').select_pos,
                            under_cursor(world').target_entity>>
                   /\ can_build' = world'.can_build
       /\ lastEvent' /= NoEvent =>
             /\ pc = "events" /\ pc' = "events"
             /\ UNCHANGED <<frameVars, ticked>>
       /\ ticked' /= ticked => (pc = "events" /\ pc' /= "events" /\ lastEvent' = NoEvent)]_vars

\* The first frame, not yet ticked: a second Primary press removes the block at
\* the same select_pos after an earlier one did.
C30_Witness ==
    /\ ~ticked
    /\ pc = "events"
    /\ Pressed("Primary")
    /\ since_release["Primary"] = 2
    /\ emitted = <<Intent("remove_block", select_pos, NoEntity, "None")>>
    /\ select_pos = under_cursor(world).select_pos

\* ------------------------------------------------------------- claim C31
\* C31: in a frame whose player has no position no step fails: the select
\* position is within range of the camera, a Mount press of an unmounted player
\* emits nothing, an Interact rising edge emits no pick_up and still the
\* collect_block of a present select position, and the Interact level is
\* stored as usual.
C31_NoPositionDegrades ==
    [][world'.ents[Player].pos = NoPos =>
          /\ (pc = "frame" /\ pc' = "events") =>
                LET ray == TerrainRay(world')
                    hit_point == VAdd(world'.cam_pos, VScale(world'.cam_dir, ray.dist))
                IN  (select_pos' /= NoPos) <=>
                        /\ ray.hit
                        /\ DistSq(world'.cam_pos, hit_point) <= MAX_PICKUP_RANGE_SQR * UNIT * UNIT
          /\ (Handles("Mount") /\ lastEvent'.state /\ ~world.mounted) => emitted' = NoIntents
          /\ RisingEdge("Interact") =>
                /\ PickUps(emitted') = {}
                /\ Collects(emitted') = {scene_select_pos} \ {NoPos}
          /\ Handles("Interact") => key_state'.collect = lastEvent'.state]_vars

\* No position, an entity under the cursor and a collectible ahead: the press
\* collects the block and picks nothing up.
C31_Witness ==
    /\ world.ents[Player].pos = NoPos
    /\ Pressed("Interact")
    /\ target_entity /= NoEntity
    /\ scene_select_pos /= NoPos
    /\ emitted = <<Intent("collect_block", scene_select_pos, NoEntity, "None")>>
    /\ key_state.collect

\* ------------------------------------------------------------- claim C32
\* C32: every pick_up of an Interact event goes to an entity that carries an
\* Item and whose squared distance to the player is below MAX_PICKUP_RANGE_SQR.
C32_PickupOnlyItemsInRange ==
    [][Handles("Interact") =>
          \A e \in PickUps(emitted') :
              /\ world.ents[e].item
              /\ world.ents[Player].pos /= NoPos
              /\ DistSq(world.ents[e].pos, world.ents[Player].pos)
                   < MAX_PICKUP_RANGE_SQR * UNIT * UNIT]_vars

\* ------------------------------------------------------------- claim C33
\* C33: a press delivered right after a release of the same channel, whether
\* that release reached the session or was consumed by the HUD, produces the
\* channel's action exactly once (Interact, whose action depends on the frame,
\* left aside).
C33_PressAfterAnyReleaseActs ==
    [][(/\ watch \in EdgeInputs \ {"Interact"}
        /\ lastEvent.input = watch /\ ~lastEvent.state
        /\ Handles(watch) /\ lastEvent'.state)
       => CountOps(emitted', ChannelOps(watch)) = 1]_vars

\* ------------------------------------------------------------- claim C34
\* C34: the auto-walk level held in key_state equals the session's auto-walk
\* latch in every reachable state: the AutoWalk arm and stop_auto_walk write
\* both to the same value.
C34_AutoWalkKeyMirrorsLatch == key_state.auto_walk = auto_walk

C34_Witness ==
    /\ Pressed("AutoWalk") /\ settings.auto_walk_behavior = "Toggle"
    /\ auto_walk /\ key_state.auto_walk
    /\ n_events > 1

\* ------------------------------------------------------------- claim C35
\* C35: the resolver never falls back to a farther candidate.  When the
\* intersecting candidate with the nearest surface fails the player-range test
\* there is no target, whatever the other intersecting candidates are.
C35_NoFallbackToFarther ==
    Returned =>
        \A e \in Crossed :
            (/\ \A o \in Crossed \ {e} : NearerSurface(e, o)
             /\ ~WithinTargetRange(e))
            => Target = NoEntity

\* The player 320 ahead of the camera: the body 10 ahead of the camera is 310
\* from the player and fails, the body 50 ahead is 270 from it and would pass.
C35_Witness ==
    /\ Returned
    /\ resolved.w.ents[1] = SmallAt(10)
    /\ resolved.w.ents[2] = SmallAt(50)
    /\ Crossed = {1, 2}
    /\ NearerSurface(1, 2)
    /\ ~WithinTargetRange(1)
    /\ WithinTargetRange(2)
    /\ Target = NoEntity

\* ------------------------------------------------------------- claim C36
\* C36: a falling edge on Respawn (a release after a stored press) leaves
\* auto_walk and key_state.auto_walk false and emits no respawn intent; an
\* event on Glide, ToggleWield or SwapLoadout, rising or falling, changes
\* neither auto_walk nor key_state.auto_walk.
C36_RespawnReleaseStopsAutoWalk ==
    [][/\ (Handles("Respawn") /\ ~lastEvent'.state /\ key_state.respawn) =>
             /\ AutoWalkOff'
             /\ ~key_state'.respawn
             /\ emitted' = NoIntents
       /\ \A input \in {"Glide", "ToggleWield", "SwapLoadout"} :
             Handles(input) =>
                 /\ auto_walk' = auto_walk
                 /\ key_state'.auto_walk = key_state.auto_walk]_vars

\* Respawn held, auto-walk switched on, Respawn released.
C36_Witness ==
    /\ FromEvent("Respawn") /\ ~lastEvent.state
    /\ ~key_state.respawn
    /\ emitted = NoIntents
    /\ AutoWalkWasStopped

\* ------------------------------------------------------------- claim C37
\* C37: a movement key event leaves auto_walk and key_state.auto_walk false
\* when its level is true and stop_auto_walk_on_input is on, and leaves both
\* unchanged on a release or with the setting off; in every case the key's
\* field of key_state takes the event's level.
C37_MoveStopsAutoWalkOnPress ==
    [][\A input \in MoveInputs :
          Handles(input) =>
              /\ key_state'[MoveField(input)] = lastEvent'.state
              /\ IF lastEvent'.state /\ settings.stop_auto_walk_on_input
                 THEN AutoWalkOff'
                 ELSE /\ auto_walk' = auto_walk
                      /\ key_state'.auto_walk = key_state.auto_walk]_vars

\* Auto-walk switched on, then a press of MoveLeft with the setting on.
C37_Witness ==
    /\ Pressed("MoveLeft")
    /\ settings.stop_auto_walk_on_input
    /\ key_state.left
    /\ AutoWalkWasStopped

\* ------------------------------------------------------------- claim C38
\* C38: the selected block changes only when a Roll event with level true is
\* handled in a frame with build permission and a select position; with build
\* permission a Roll event leaves the roll input as it was, and without it the
\* roll input takes the event's level and the selected block stays.
C38_RollPicksOrRolls ==
    [][/\ selected_block' /= selected_block =>
             /\ Handles("Roll") /\ lastEvent'.state
             /\ can_build
             /\ select_pos /= NoPos
       /\ Handles("Roll") =>
             IF can_build THEN inputs'.roll = inputs.roll
             ELSE /\ inputs'.roll = lastEvent'.state
                  /\ selected_block' = selected_block]_vars

\* Roll pressed without build permission, then pressed in a frame with it: the
\* block is picked and the roll input still holds the earlier level.
C38_Witness ==
    /\ Pressed("Roll")
    /\ can_build
    /\ select_pos /= NoPos
    /\ selected_block = "Filled"
    /\ inputs.roll

\* ------------------------------------------------------------- claim C39
\* C39: Event::Close ends the session with Shutdown at once, no client tick
\* run and no later event of the frame handled (nothing changes once the
\* session has ended); a frame of a client registered but not in game ends it
\* with Switch and one of a client that is neither with Pop, no event handled
\* and no tick run; a paused frame handles its events and ends without the
\* client tick, an unpaused one runs it.
C39_FrameEndsWithoutTick ==
    [][/\ (pc = "events" /\ lastEvent'.input = "Close") =>
             /\ pc' = "ended" /\ result' = "Shutdown"
             /\ ticked' = ticked
             /\ emitted' = NoIntents
             /\ UNCHANGED <<sessionVars, n_events>>
       /\ pc = "ended" => UNCHANGED vars
       /\ (pc = "frame" /\ world'.mode /= "in_game") =>
             /\ pc' = "ended"
             /\ result' = IF world'.mode = "registered" THEN "Switch" ELSE "Pop"
             /\ ticked' = ticked
             /\ UNCHANGED <<sessionVars, n_events>>
       /\ (pc = "events" /\ pc' /= "events" /\ lastEvent'.input /= "Close") =>
             ticked' = ~world.paused
       /\ (pc = "events" /\ pc' = "events") => ticked' = ticked]_vars

\* A paused frame: Sit pressed and handled, then the window closed.
C39_Witness ==
    /\ pc = "ended" /\ result = "Shutdown"
    /\ lastEvent.input = "Close"
    /\ world.paused
    /\ key_state.toggle_sit
    /\ ~ticked

====
